---- MODULE Spec2Model ----
(***************************************************************************)
(* A model of the text-editing engine of learn-text-editor: the row model  *)
(* with its raw/rendered text, the cross-row syntax highlighter, the key   *)
(* decoder and the incremental search.  Text is a sequence of bytes, a key *)
(* is a rune (an integer code point), indexes are 0-based as in the Go     *)
(* source and are shifted by one where a sequence is read.                 *)
(***************************************************************************)
EXTENDS Integers, Sequences, FiniteSets, TLC

VARIABLES
    e,              \* var e editorConfig: row, cx, cy, rx, rowOffset, colOffset,
                    \*   screenRows, screenCols, dirty, filename, and syntax
                    \*   (0 is nil, k > 0 is &highlightDB[k-1])
    quitTimes,      \* quitTimes
    lastMatchLine,  \* lastMatchLine
    searchForward,  \* searchForward
    searchHighlightLine,     \* searchHighlightLine
    beforeSearchHighlights,  \* beforeSearchHighlights (<<>> is nil or empty)
    examined,       \* the rows (currentSearchLine) the loop of editorFindCallback
                    \*   read when it last ran in this call of editorFind
    mode,           \* where the session is: "edit", in editorPrompt for
                    \*   editorFind ("find") or editorSave ("saveas"), "exit"
    buf,            \* editorPrompt's buf
    saved,          \* editorFind's savedCx, savedCy, savedColOffset, savedRowOffset
    key,            \* the rune editorReadKey returned last (0: none yet)
    rdpos,          \* editorReadKey's position: the read it is blocked in
    rdseq,          \* the bytes its reads have delivered so far (c, then seq)
    nread,          \* the number of bytes the call has consumed
    probe           \* a text and a number drawn for a pure function (a raw
                    \*   text and a column, a rendered text and a flag), the
                    \*   function applied to them (op) and its result (out)

vars == <<e, quitTimes, lastMatchLine, searchForward, searchHighlightLine,
          beforeSearchHighlights, examined, mode, buf, saved, key, rdpos,
          rdseq, nread, probe>>

----------------------------------------------------------------------------
(* Program constants.                                                      *)

tabStop == 8
requiredQuitTimes == 3

enableNumberHighlight == 1
enableStringHighlight == 2

highlightNormal == 0
highlightComment == 1
highlightMultiComment == 2
highlightKeyword1 == 3
highlightKeyword2 == 4
highlightString == 5
highlightNumber == 6
highlightMatch == 7

backspace == 127
arrowUp == 8593
arrowDown == 8595
arrowLeft == 8592
arrowRight == 8594
pageUp == 8607
pageDown == 8609
home == 8606
end == 8608
delete == 9003

chEsc == 27
chEnter == 13
chNewline == 10
chTab == 9
chSpace == 32
chTilde == 126
chBackslash == 92
chDoubleQuote == 34
chSingleQuote == 39
chDot == 46
chSlash == 47
chBar == 124
chZero == 48
chNine == 57
chLBracket == 91
chUpperO == 79
RuneError == 65533

\* ctrl(c) is c & 0b0001_1111.
ctrl(c) == c % 32

----------------------------------------------------------------------------
(* Go strings and slices.                                                  *)

Min(a, b) == IF a < b THEN a ELSE b
Max(a, b) == IF a < b THEN b ELSE a

\* s[a:b]
Slice(s, a, b) == SubSeq(s, a + 1, b)

\* strings.HasPrefix(s[i:], p)
HasPrefixAt(s, i, p) ==
    /\ i + Len(p) <= Len(s)
    /\ SubSeq(s, i + 1, i + Len(p)) = p

\* strings.HasSuffix(s, p)
HasSuffix(s, p) ==
    /\ Len(p) <= Len(s)
    /\ SubSeq(s, Len(s) - Len(p) + 1, Len(s)) = p

\* strings.TrimSuffix(s, p)
TrimSuffix(s, p) == IF HasSuffix(s, p) THEN SubSeq(s, 1, Len(s) - Len(p)) ELSE s

\* strings.Index(s, q): the first offset at which q occurs in s, or -1.
Index(s, q) ==
    LET hits == {i \in 0..Len(s) : HasPrefixAt(s, i, q)}
    IN  IF hits = {} THEN -1 ELSE CHOOSE i \in hits : \A j \in hits : i <= j

\* strings.Contains(s, q)
Contains(s, q) == Index(s, q) >= 0

\* A function on 1..n as the tuple it is (TLC keeps a function expression
\* unevaluated, and reads a later EXCEPT of it wrongly in SubSeq).
AsSeq(f) == SubSeq(f, 1, Len(f))

Repeat(v, n) == AsSeq([j \in 1..n |-> v])

\* WriteRune / string(rune): the UTF-8 encoding of a rune below U+10000.
EncodeRune(c) ==
    IF c < 128 THEN <<c>>
    ELSE IF c < 2048 THEN <<192 + (c \div 64), 128 + (c % 64)>>
    ELSE <<224 + (c \div 4096), 128 + ((c \div 64) % 64), 128 + (c % 64)>>

IsCont(b) == b >= 128 /\ b <= 191

\* The rune a range over a string yields at byte offset i, with its width:
\* an ill-formed byte yields U+FFFD of width 1.  Four-byte encodings never
\* occur: every byte of a text comes from a rune below U+10000.
DecodeRuneAt(s, i) ==
    LET b0 == s[i + 1]
        b1 == IF i + 1 < Len(s) THEN s[i + 2] ELSE 0
        b2 == IF i + 2 < Len(s) THEN s[i + 3] ELSE 0
        bad == [r |-> RuneError, size |-> 1]
    IN  IF b0 < 128 THEN [r |-> b0, size |-> 1]
        ELSE IF b0 >= 194 /\ b0 <= 223
        THEN IF IsCont(b1) THEN [r |-> (b0 - 192) * 64 + (b1 - 128), size |-> 2]
             ELSE bad
        ELSE IF b0 >= 224 /\ b0 <= 239
        THEN IF /\ IsCont(b1) /\ IsCont(b2)
                /\ (b0 = 224 => b1 >= 160)
                /\ (b0 = 237 => b1 <= 159)
             THEN [r |-> (b0 - 224) * 4096 + (b1 - 128) * 64 + (b2 - 128), size |-> 3]
             ELSE bad
        ELSE bad

----------------------------------------------------------------------------
(* The syntax profile registry.                                            *)

highlightDB == <<
  [ fileType |-> "go",
    matchers |-> << <<46, 103, 111>> >>,          \* ".go"
    keywords |-> <<
        <<115, 119, 105, 116, 99, 104>>,          \* switch
        <<105, 102>>,                             \* if
        <<102, 111, 114>>,                        \* for
        <<114, 97, 110, 103, 101>>,               \* range
        <<98, 114, 101, 97, 107>>,                \* break
        <<99, 111, 110, 116, 105, 110, 117, 101>>,\* continue
        <<114, 101, 116, 117, 114, 110>>,         \* return
        <<101, 108, 115, 101>>,                   \* else
        <<99, 97, 115, 101>>,                     \* case
        <<115, 116, 114, 117, 99, 116>>,          \* struct
        <<116, 121, 112, 101>>,                   \* type
        <<105, 110, 116, 124>>,                   \* int|
        <<105, 110, 116, 51, 50, 124>>,           \* int32|
        <<105, 110, 116, 54, 52, 124>>,           \* int64|
        <<117, 105, 110, 116, 124>>,              \* uint|
        <<117, 105, 110, 116, 51, 50, 124>>,      \* uint32|
        <<117, 105, 110, 116, 54, 52, 124>>,      \* uint64|
        <<102, 108, 111, 97, 116, 124>>,          \* float|
        <<102, 108, 111, 97, 116, 51, 50, 124>>,  \* float32|
        <<102, 108, 111, 97, 116, 54, 52, 124>>,  \* float64|
        <<115, 116, 114, 105, 110, 103, 124>>,    \* string|
        <<114, 117, 110, 101, 124>>,              \* rune|
        <<98, 121, 116, 101, 124>>,               \* byte|
        <<109, 97, 112, 124>>,                    \* map|
        <<99, 104, 97, 110, 124>>,                \* chan|
        <<101, 114, 114, 111, 114, 124>>,         \* error|
        <<102, 117, 110, 99, 124>> >>,            \* func|
    singleLineCommentStart |-> <<47, 47>>,        \* "//"
    multilineCommentStart |-> <<47, 42>>,         \* "/*"
    multilineCommentEnd |-> <<42, 47>>,           \* "*/"
    flags |-> 3 ] >>                              \* numbers | strings

\* flags & bit != 0
HasFlag(flags, bit) == (flags \div bit) % 2 = 1

\* ",.()+-/*=~%<>[];"
separatorChars == {44, 46, 40, 41, 43, 45, 47, 42, 61, 126, 37, 60, 62, 91, 93, 59}

\* Of a byte of the rendered text, taken as a rune: a byte above 127 is a
\* two-byte string, which the punctuation set does not contain.
isSeparator(ch) == ch = chSpace \/ ch = 0 \/ ch \in separatorChars

----------------------------------------------------------------------------
(* Rows.  A row's highlight slice is its first len(render) tags; hlcap is  *)
(* what its backing array is known to hold beyond them.  The array may be  *)
(* larger than that (append rounds capacities up), and holds zeros there.  *)
(* With a profile selected editorUpdateSyntax writes every tag of the      *)
(* slice before it reads it, and editorSelectSyntaxHighlight, the one      *)
(* place where the size of the array shows, is not reached a second time:  *)
(* from then on hlcap is not kept (dropCap).                               *)

newRow(at, line) ==
    [idx |-> at, raw |-> line, render |-> <<>>, highlight |-> <<>>,
     hlcap |-> <<>>, hasOpenComment |-> FALSE]

\* slices.Grow(row.highlight, n) followed by row.highlight[:n]: the array
\* is extended by zeros when fewer than n elements lie beyond the slice.
growHighlight(r, n) ==
    LET tail == IF Len(r.hlcap) < n
                THEN r.hlcap \o Repeat(highlightNormal, n - Len(r.hlcap))
                ELSE r.hlcap
        full == r.highlight \o tail
    IN  [r EXCEPT !.highlight = SubSeq(full, 1, n),
                  !.hlcap = SubSeq(full, n + 1, Len(full))]

\* row.highlight[j] = v for a <= j < b
SetRange(hl, a, b, v) ==
    AsSeq([j \in 1..Len(hl) |-> IF j - 1 >= a /\ j - 1 < b THEN v ELSE hl[j]])

\* The first keyword pattern, from the k-th on, that the text at offset i
\* of render starts with, whatever follows it, or 0.
RECURSIVE matchKeyword_anyEnd(_, _, _, _)
matchKeyword_anyEnd(keywords, render, i, k) ==
    IF k > Len(keywords) THEN 0
    ELSE IF HasPrefixAt(render, i, TrimSuffix(keywords[k], <<chBar>>)) THEN k
    ELSE matchKeyword_anyEnd(keywords, render, i, k + 1)

\* The first keyword pattern, from the k-th on, that matches at offset i of
\* render as a whole word, or 0.
RECURSIVE matchKeyword(_, _, _, _)
matchKeyword(keywords, render, i, k) ==
    IF k > Len(keywords) THEN 0
    ELSE LET keyword == TrimSuffix(keywords[k], <<chBar>>)
             stop == i + Len(keyword)
         IN  IF /\ HasPrefixAt(render, i, keyword)
                /\ \/ stop < Len(render) /\ isSeparator(render[stop + 1])
                   \/ stop = Len(render)
             THEN k
             ELSE matchKeyword(keywords, render, i, k + 1)

\* One iteration of the scan loop of editorUpdateSyntax at offset t.i: the
\* loop's variables after it (stop: the line comment's break).
scanStep(syn, render, t) ==
    LET i == t.i
        hl == t.hl
        ch == render[i + 1]
        prevHl == IF i > 0 THEN hl[i] ELSE highlightNormal
        lineCommentStart == syn.singleLineCommentStart
        mcs == syn.multilineCommentStart
        mce == syn.multilineCommentEnd
        kw == IF t.isPrevSep THEN matchKeyword(syn.keywords, render, i, 1) ELSE 0
    IN
    IF /\ Len(lineCommentStart) > 0 /\ t.stringStart = 0 /\ ~t.isInComment
       /\ HasPrefixAt(render, i, lineCommentStart)
    THEN [t EXCEPT !.hl = SetRange(hl, i, Len(hl), highlightComment),
                   !.stop = TRUE]
    ELSE IF Len(mcs) > 0 /\ Len(mce) > 0 /\ t.stringStart = 0 /\ t.isInComment
    THEN IF HasPrefixAt(render, i, mce)
         THEN [t EXCEPT !.hl = SetRange(hl, i, i + Len(mce), highlightMultiComment),
                        !.i = i + Len(mce),
                        !.isInComment = FALSE,
                        !.isPrevSep = TRUE]
         ELSE [t EXCEPT !.hl = SetRange(hl, i, i + 1, highlightMultiComment),
                        !.i = i + 1]
    ELSE IF /\ Len(mcs) > 0 /\ Len(mce) > 0 /\ t.stringStart = 0
            /\ HasPrefixAt(render, i, mcs)
    THEN [t EXCEPT !.hl = SetRange(hl, i, i + Len(mcs), highlightMultiComment),
                   !.i = i + Len(mcs),
                   !.isInComment = TRUE]
    ELSE IF HasFlag(syn.flags, enableStringHighlight) /\ t.stringStart # 0
    THEN IF ch = chBackslash /\ i + 1 < Len(render)
         THEN [t EXCEPT !.hl = SetRange(hl, i, i + 2, highlightString),
                        !.i = i + 2]
         ELSE [t EXCEPT !.hl = SetRange(hl, i, i + 1, highlightString),
                        !.stringStart = IF ch = t.stringStart THEN 0
                                        ELSE t.stringStart,
                        !.i = i + 1,
                        !.isPrevSep = TRUE]
    ELSE IF /\ HasFlag(syn.flags, enableStringHighlight)
            /\ (ch = chDoubleQuote \/ ch = chSingleQuote)
    THEN [t EXCEPT !.stringStart = ch,
                   !.hl = SetRange(hl, i, i + 1, highlightString),
                   !.i = i + 1]
    ELSE IF /\ HasFlag(syn.flags, enableNumberHighlight)
            /\ \/ /\ ch >= chZero /\ ch <= chNine
                  /\ (t.isPrevSep \/ prevHl = highlightNumber)
               \/ ch = chDot /\ prevHl = highlightNumber
    THEN [t EXCEPT !.hl = SetRange(hl, i, i + 1, highlightNumber),
                   !.isPrevSep = FALSE,
                   !.i = i + 1]
    ELSE IF kw # 0
    THEN [t EXCEPT !.hl = SetRange(hl, i, Len(render),
                              IF HasSuffix(syn.keywords[kw], <<chBar>>)
                              THEN highlightKeyword2 ELSE highlightKeyword1),
                   !.i = i + Len(TrimSuffix(syn.keywords[kw], <<chBar>>)),
                   !.isPrevSep = FALSE]
    ELSE [t EXCEPT !.hl = SetRange(hl, i, i + 1, highlightNormal),
                   !.isPrevSep = isSeparator(ch),
                   !.i = i + 1]

\* The loop's variables u after an iteration from t, were an escaped
\* delimiter to close the string.
closeOnEscaped(render, t, u) ==
    IF t.stringStart # 0 /\ u.i = t.i + 2 /\ render[t.i + 2] = t.stringStart
    THEN [u EXCEPT !.stringStart = 0]
    ELSE u

\* The scan loop, an escaped delimiter closing the string.
RECURSIVE scanLoop_closeOnEscaped(_, _, _)
scanLoop_closeOnEscaped(syn, render, t) ==
    IF t.stop \/ t.i >= Len(render) THEN t
    ELSE scanLoop_closeOnEscaped(syn, render,
             closeOnEscaped(render, t, scanStep(syn, render, t)))

\* The scan loop of editorUpdateSyntax.
RECURSIVE scanLoop(_, _, _)
scanLoop(syn, render, t) ==
    IF t.stop \/ t.i >= Len(render) THEN t
    ELSE scanLoop(syn, render, scanStep(syn, render, t))

\* The scan of editorUpdateSyntax over render, the tags being hl before it
\* and the previous row's flag isInComment: the tags and the flag after it.
scanRow(syn, render, hl, isInComment) ==
    LET t == scanLoop(syn, render,
                      [i |-> 0, hl |-> hl, isPrevSep |-> TRUE, stringStart |-> 0,
                       isInComment |-> isInComment, stop |-> FALSE])
    IN  [highlight |-> t.hl, isInComment |-> t.isInComment]

\* The end of editorUpdateSyntax on the row value g, res being what the
\* scan left: the row as written, and whether its open-comment flag changed.
storeScan(g, res) ==
    [row |-> [g EXCEPT !.highlight = res.highlight,
                       !.hasOpenComment = res.isInComment],
     changed |-> res.isInComment # g.hasOpenComment]

\* editorUpdateSyntax from its test of e.syntax on, without the recursive
\* call, g being the row value with its highlight slice resized.
scanGrown(syn, rows, g) ==
    IF syn = 0 THEN [row |-> g, changed |-> FALSE]
    ELSE storeScan(g, scanRow(highlightDB[syn], g.render, g.highlight,
                              g.idx > 0 /\ rows[g.idx].hasOpenComment))

\* The body of editorUpdateSyntax on the row value r (what a *editorRow
\* points at) in the document rows, without the recursive call: the row as
\* written, and whether its open-comment flag changed.
updateSyntaxOf(syn, rows, r) == scanGrown(syn, rows, growHighlight(r, Len(r.render)))

\* The end of editorUpdateSyntax(&e.row[k]) without its recursive call.
cascade_stops(syn, rows, k, u) == [rows EXCEPT ![k + 1] = u.row]

RECURSIVE editorUpdateSyntax(_, _, _)

\* The end of editorUpdateSyntax(&e.row[k]), u being what its body made of
\* the row: the row is in the document, and the next row is scanned when
\* the flag changed.
cascade(syn, rows, k, u) ==
    IF u.changed /\ u.row.idx + 1 < Len(rows)
    THEN editorUpdateSyntax(syn, [rows EXCEPT ![k + 1] = u.row], u.row.idx + 1)
    ELSE [rows EXCEPT ![k + 1] = u.row]

\* editorUpdateSyntax(&e.row[k])
editorUpdateSyntax(syn, rows, k) ==
    cascade(syn, rows, k, updateSyntaxOf(syn, rows, rows[k + 1]))

\* The render loop of editorUpdateRow: t.i is the byte offset in raw of the
\* next rune, t.idx counts the runes and pad spaces written to t.out.
RECURSIVE renderLoop(_, _)
renderLoop(raw, t) ==
    IF t.i >= Len(raw) THEN t.out
    ELSE LET d == DecodeRuneAt(raw, t.i)
             pad == (tabStop - ((t.idx + 1) % tabStop)) % tabStop
         IN  IF d.r = chTab
             THEN renderLoop(raw, [i |-> t.i + d.size, idx |-> t.idx + 1 + pad,
                                   out |-> t.out \o Repeat(chSpace, 1 + pad)])
             ELSE renderLoop(raw, [i |-> t.i + d.size, idx |-> t.idx + 1,
                                   out |-> t.out \o EncodeRune(d.r)])

\* The render of a row whose tabs are dropped instead of padded.
renderOf_noTabs(raw) == SelectSeq(raw, LAMBDA b : b # chTab)

renderOf(raw) == renderLoop(raw, [i |-> 0, idx |-> 0, out |-> <<>>])

\* The rows as kept once editorUpdateSyntax has run with the profile syn.
dropCap(syn, rows) ==
    IF syn = 0 THEN rows
    ELSE AsSeq([j \in 1..Len(rows) |-> [rows[j] EXCEPT !.hlcap = <<>>]])

\* editorUpdateRow(&e.row[k])
editorUpdateRow(syn, rows, k) ==
    dropCap(syn,
        editorUpdateSyntax(syn,
            [rows EXCEPT ![k + 1].render = renderOf(rows[k + 1].raw)],
            k))

----------------------------------------------------------------------------
(* Columns, cursor and scrolling.                                          *)

RECURSIVE cxToRxLoop(_, _, _, _)
cxToRxLoop(raw, n, i, r) ==
    IF i >= n THEN r
    ELSE cxToRxLoop(raw, n, i + 1,
                    IF raw[i + 1] = chTab
                    THEN r + ((tabStop - 1) - (r % tabStop)) + 1
                    ELSE r + 1)

\* editorRowCxToRx(row, cx)
editorRowCxToRx(r, c) == cxToRxLoop(r.raw, c, 0, 0)

\* The loop of editorRowRxToCx that returns the column after the character
\* at which curRx exceeds rx.
RECURSIVE rxToCxLoop_after(_, _, _, _)
rxToCxLoop_after(raw, target, i, curRx) ==
    IF i >= Len(raw) THEN Len(raw)
    ELSE LET d == DecodeRuneAt(raw, i)
             nxt == IF d.r = chTab
                    THEN curRx + ((tabStop - 1) - (curRx % tabStop)) + 1
                    ELSE curRx + 1
         IN  IF nxt > target THEN i + d.size
             ELSE rxToCxLoop_after(raw, target, i + d.size, nxt)

\* The loop of editorRowRxToCx from the character at byte i on, curRx the
\* render column reached.
RECURSIVE rxToCxLoop(_, _, _, _)
rxToCxLoop(raw, target, i, curRx) ==
    IF i >= Len(raw) THEN Len(raw)
    ELSE LET d == DecodeRuneAt(raw, i)
             nxt == IF d.r = chTab
                    THEN curRx + ((tabStop - 1) - (curRx % tabStop)) + 1
                    ELSE curRx + 1
         IN  IF nxt > target THEN i
             ELSE rxToCxLoop(raw, target, i + d.size, nxt)

\* editorRowRxToCx(row, rx) with curRx starting at 1 instead of 0
editorRowRxToCx_ahead(r, target) == rxToCxLoop(r.raw, target, 0, 1)

\* editorRowRxToCx(row, rx)
editorRowRxToCx(r, target) == rxToCxLoop(r.raw, target, 0, 0)

\* editorScroll()
editorScroll(s) ==
    LET r == IF s.cy < Len(s.row) THEN editorRowCxToRx(s.row[s.cy + 1], s.cx)
             ELSE 0
        ro1 == IF s.cy < s.rowOffset THEN s.cy ELSE s.rowOffset
        ro2 == IF s.cy >= ro1 + s.screenRows THEN s.cy - s.screenRows + 1 ELSE ro1
        co1 == IF r < s.colOffset THEN r ELSE s.colOffset
        co2 == IF r >= co1 + s.screenCols THEN r - s.screenCols + 1 ELSE co1
    IN  [s EXCEPT !.rx = r, !.rowOffset = ro2, !.colOffset = co2]

\* editorMoveCursor(key)
editorMoveCursor(s, k) ==
    LET line == IF s.cy < Len(s.row) THEN s.row[s.cy + 1].raw ELSE <<>>
        m == IF k = arrowUp
             THEN IF s.cy # 0 THEN [s EXCEPT !.cy = s.cy - 1] ELSE s
             ELSE IF k = arrowLeft
             THEN IF s.cx # 0 THEN [s EXCEPT !.cx = s.cx - 1]
                  ELSE IF s.cy > 0
                  THEN [s EXCEPT !.cy = s.cy - 1, !.cx = Len(s.row[s.cy].raw)]
                  ELSE s
             ELSE IF k = arrowDown
             THEN IF s.cy < Len(s.row) THEN [s EXCEPT !.cy = s.cy + 1] ELSE s
             ELSE IF k = arrowRight
             THEN IF s.cx < Len(line) THEN [s EXCEPT !.cx = s.cx + 1]
                  ELSE IF s.cy < Len(s.row) /\ s.cx = Len(line)
                  THEN [s EXCEPT !.cy = s.cy + 1, !.cx = 0]
                  ELSE s
             ELSE s
    IN  IF m.cy < Len(m.row)
        THEN [m EXCEPT !.cx = Min(m.cx, Len(m.row[m.cy + 1].raw))]
        ELSE [m EXCEPT !.cx = 0]

RECURSIVE moveCursorTimes(_, _, _)
moveCursorTimes(s, k, n) ==
    IF n = 0 THEN s ELSE moveCursorTimes(editorMoveCursor(s, k), k, n - 1)

----------------------------------------------------------------------------
(* Document mutation.                                                      *)

\* editorInsertRow(at, line)
editorInsertRow(s, at, line) ==
    LET ins == Slice(s.row, 0, at) \o <<newRow(at, line)>>
                   \o Slice(s.row, at, Len(s.row))
        ren == AsSeq([j \in 1..Len(ins) |->
                   IF j - 1 >= at + 1 THEN [ins[j] EXCEPT !.idx = @ + 1]
                   ELSE ins[j]])
    IN  [s EXCEPT !.row = editorUpdateRow(s.syntax, ren, at), !.dirty = TRUE]

\* editorDelRow(at) without the loop that renumbers the rows after at
editorDelRow_noRenumber(s, at) ==
    IF at < 0 \/ at >= Len(s.row) THEN s
    ELSE [s EXCEPT !.row = Slice(s.row, 0, at) \o Slice(s.row, at + 1, Len(s.row)),
                   !.dirty = TRUE]

\* editorDelRow(at)
editorDelRow(s, at) ==
    IF at < 0 \/ at >= Len(s.row) THEN s
    ELSE LET del == Slice(s.row, 0, at) \o Slice(s.row, at + 1, Len(s.row))
             ren == AsSeq([j \in 1..Len(del) |->
                        IF j - 1 >= at THEN [del[j] EXCEPT !.idx = @ - 1]
                        ELSE del[j]])
         IN  [s EXCEPT !.row = ren, !.dirty = TRUE]

\* editorRowInsertChar(&e.row[k], at, c)
editorRowInsertChar(s, k, at0, c) ==
    LET raw == s.row[k + 1].raw
        at == IF at0 < 0 \/ at0 > Len(raw) THEN Len(raw) ELSE at0
        newRaw == Slice(raw, 0, at) \o EncodeRune(c) \o Slice(raw, at, Len(raw))
    IN  [s EXCEPT !.row = editorUpdateRow(s.syntax,
                              [s.row EXCEPT ![k + 1].raw = newRaw], k),
                  !.dirty = TRUE]

\* editorRowAppendString(&e.row[k], str)
editorRowAppendString(s, k, str) ==
    [s EXCEPT !.row = editorUpdateRow(s.syntax,
                          [s.row EXCEPT ![k + 1].raw = s.row[k + 1].raw \o str], k),
              !.dirty = TRUE]

\* editorRowDelChar(&e.row[k], at)
editorRowDelChar(s, k, at) ==
    LET raw == s.row[k + 1].raw
    IN  IF at < 0 \/ at >= Len(raw) THEN s
        ELSE [s EXCEPT !.row = editorUpdateRow(s.syntax,
                                   [s.row EXCEPT ![k + 1].raw =
                                        Slice(raw, 0, at) \o Slice(raw, at + 1, Len(raw))],
                                   k),
                       !.dirty = TRUE]

\* editorRowInsertChar(&e.row[e.cy], e.cx, c) and e.cx++
insertAtCursor(s, c) == [editorRowInsertChar(s, s.cy, s.cx, c) EXCEPT !.cx = @ + 1]

\* editorInsertChar(c)
editorInsertChar(s, c) ==
    insertAtCursor(IF s.cy = Len(s.row) THEN editorInsertRow(s, Len(s.row), <<>>)
                   ELSE s,
                   c)

\* row = &e.row[e.cy]; row.raw = row.raw[:e.cx]; editorUpdateRow(row)
truncateAtCursor(s) ==
    [s EXCEPT !.row = editorUpdateRow(s.syntax,
                          [s.row EXCEPT ![s.cy + 1].raw = Slice(@, 0, s.cx)],
                          s.cy)]

\* editorInsertNewline()
editorInsertNewline(s) ==
    LET raw == s.row[s.cy + 1].raw
    IN  [(IF s.cx = 0 THEN editorInsertRow(s, s.cy, <<>>)
          ELSE truncateAtCursor(
                   editorInsertRow(s, s.cy + 1, Slice(raw, s.cx, Len(raw)))))
         EXCEPT !.cy = @ + 1, !.cx = 0]

\* editorDelRow(e.cy)
delRowAtCursor(s) == editorDelRow(s, s.cy)

\* editorDelChar()
editorDelChar(s) ==
    IF s.cy = Len(s.row) \/ (s.cx = 0 /\ s.cy = 0) THEN s
    ELSE IF s.cx > 0
    THEN [editorRowDelChar(s, s.cy, s.cx - 1) EXCEPT !.cx = @ - 1]
    ELSE [delRowAtCursor(
              editorRowAppendString(s, s.cy - 1, s.row[s.cy + 1].raw))
          EXCEPT !.cx = Len(s.row[s.cy].raw), !.cy = @ - 1]

----------------------------------------------------------------------------
(* Files and profile selection.                                            *)

\* filepath.Ext(path): the suffix from the last dot of the last path
\* element on, or the empty string.
RECURSIVE extLoop(_, _)
extLoop(path, i) ==
    IF i < 0 \/ path[i + 1] = chSlash THEN <<>>
    ELSE IF path[i + 1] = chDot THEN Slice(path, i, Len(path))
    ELSE extLoop(path, i - 1)

Ext(path) == extLoop(path, Len(path) - 1)

\* The first matcher of syn, from the m-th on, that matches name.
RECURSIVE matcherHits(_, _, _)
matcherHits(syn, name, m) ==
    IF m > Len(syn.matchers) THEN FALSE
    ELSE LET matcher == syn.matchers[m]
         IN  IF matcher[1] = chDot
             THEN matcher = Ext(name) \/ matcherHits(syn, name, m + 1)
             ELSE Contains(name, matcher) \/ matcherHits(syn, name, m + 1)

\* The profile the loop over highlightDB selects for name, from entry k on.
RECURSIVE selectFrom(_, _)
selectFrom(name, k) ==
    IF k > Len(highlightDB) THEN 0
    ELSE IF matcherHits(highlightDB[k], name, 1) THEN k
    ELSE selectFrom(name, k + 1)

\* One iteration of the loop of editorSelectSyntaxHighlight, at position
\* k: editorUpdateSyntax runs on a copy of the row, and u is what its body
\* made of the copy.  The tags it writes reach the document when the copy's
\* slice still shares the row's array (shares: certainly when the array had
\* room, otherwise as alias[k] says: the runtime decides); the flag it
\* writes stays in the copy.
selectStep(syn, rows, k, shares, u) ==
    LET copy == rows[k + 1]
        rows1 == IF syn # 0 /\ shares
                 THEN [rows EXCEPT ![k + 1].highlight = u.row.highlight]
                 ELSE rows
    IN  IF u.changed /\ copy.idx + 1 < Len(rows1)
        THEN editorUpdateSyntax(syn, rows1, copy.idx + 1)
        ELSE rows1

\* The loop of editorSelectSyntaxHighlight over the rows from position k on.
RECURSIVE selectLoop(_, _, _, _)
selectLoop(syn, rows, k, alias) ==
    IF k >= Len(rows) THEN rows
    ELSE selectLoop(syn,
                    selectStep(syn, rows, k,
                               \/ alias[k + 1]
                               \/ Len(rows[k + 1].hlcap) >= Len(rows[k + 1].render),
                               updateSyntaxOf(syn, rows, rows[k + 1])),
                    k + 1, alias)

\* editorSelectSyntaxHighlight()
editorSelectSyntaxHighlight(s, alias) ==
    IF s.filename = <<>> THEN [s EXCEPT !.syntax = 0]
    ELSE LET syn == selectFrom(s.filename, 1)
         IN  [s EXCEPT !.syntax = syn,
                       !.row = dropCap(syn, selectLoop(syn, s.row, 0, alias))]

\* editorRowsToString()
RECURSIVE rowsToStringFrom(_, _)
rowsToStringFrom(rows, k) ==
    IF k > Len(rows) THEN <<>>
    ELSE rows[k].raw \o <<chNewline>> \o rowsToStringFrom(rows, k + 1)

editorRowsToString(rows) == rowsToStringFrom(rows, 1)

\* The lines of strings.Lines(text), each with strings.TrimSuffix(line, "\n")
\* applied: a line ends after each newline, and a last line without one is
\* a line if it is not empty.
RECURSIVE linesFrom(_, _, _)
linesFrom(text, i, cur) ==
    IF i >= Len(text) THEN (IF cur = <<>> THEN <<>> ELSE <<cur>>)
    ELSE IF text[i + 1] = chNewline THEN <<cur>> \o linesFrom(text, i + 1, <<>>)
    ELSE linesFrom(text, i + 1, Append(cur, text[i + 1]))

Lines(text) == linesFrom(text, 0, <<>>)

RECURSIVE insertLines(_, _, _)
insertLines(s, lines, k) ==
    IF k > Len(lines) THEN s
    ELSE insertLines(editorInsertRow(s, Len(s.row), lines[k]), lines, k + 1)

\* editorOpen(path), the file holding text
editorOpen(s, path, text) ==
    LET s1 == editorSelectSyntaxHighlight([s EXCEPT !.filename = path],
                                          Repeat(TRUE, Len(s.row)))
        s2 == insertLines(s1, Lines(text), 1)
    IN  [s2 EXCEPT !.dirty = FALSE]

----------------------------------------------------------------------------
(* Search.  g holds the editor (g.e) and the search globals.               *)

\* copy(dst, src)
CopyInto(dst, src) ==
    AsSeq([j \in 1..Len(dst) |-> IF j <= Len(src) THEN src[j] ELSE dst[j]])

\* clearSearchHighlight(e.row) that drops the snapshot without copying it
\* back.
clearSearchHighlight_forgets(g) == [g EXCEPT !.beforeSearchHighlights = <<>>]

\* clearSearchHighlight(e.row)
clearSearchHighlight(g) ==
    IF Len(g.beforeSearchHighlights) > 0
    THEN [g EXCEPT !.e.row[g.searchHighlightLine + 1].highlight =
                       CopyInto(g.e.row[g.searchHighlightLine + 1].highlight,
                                g.beforeSearchHighlights),
                   !.beforeSearchHighlights = <<>>]
    ELSE g

\* highlightSearchResult that tags from the start of the row.
highlightSearchResult_atStart(g, at, query, offset) ==
    [g EXCEPT !.searchHighlightLine = g.e.row[at + 1].idx,
              !.beforeSearchHighlights = g.e.row[at + 1].highlight,
              !.e.row[at + 1].highlight =
                  SetRange(@, 0, Len(query), highlightMatch)]

\* highlightSearchResult(row, query, offset), row being e.row[at]: the
\* copy's slice shares the row's array.
highlightSearchResult(g, at, query, offset) ==
    LET r == g.e.row[at + 1]
    IN  [g EXCEPT !.searchHighlightLine = r.idx,
                  !.beforeSearchHighlights = r.highlight,
                  !.e.row[at + 1].highlight =
                      SetRange(r.highlight, offset, offset + Len(query),
                               highlightMatch)]

\* The step of the search loop that wraps past the last row to the last
\* row instead of to row 0.
nextSearchLine_stuck(forward, current, n) ==
    LET c1 == IF forward THEN current + 1 ELSE current - 1
    IN  IF c1 = -1 \/ c1 = n THEN n - 1 ELSE c1

\* The step of the search loop over n rows: currentSearchLine after it.
nextSearchLine(forward, current, n) ==
    LET c1 == IF forward THEN current + 1 ELSE current - 1
    IN  IF c1 = -1 THEN n - 1
        ELSE IF c1 = n THEN 0 ELSE c1

\* The search loop that leaves the cursor on each row it examines.
RECURSIVE findLoop_cursorFollows(_, _, _, _)
findLoop_cursorFollows(g, query, current, n) ==
    IF n = 0 THEN g
    ELSE LET c2 == nextSearchLine(g.searchForward, current, Len(g.e.row))
             r == g.e.row[c2 + 1]
             idx == Index(r.render, query)
             g1 == [g EXCEPT !.examined = Append(g.examined, c2), !.e.cy = c2]
         IN  IF idx >= 0
             THEN highlightSearchResult(
                      [g1 EXCEPT !.lastMatchLine = c2,
                                 !.e.cx = editorRowRxToCx(r, idx),
                                 !.e.rowOffset = Len(g.e.row)],
                      c2, query, idx)
             ELSE findLoop_cursorFollows(g1, query, c2, n - 1)

\* The search loop of editorFindCallback with n rows left to examine.
RECURSIVE findLoop(_, _, _, _)
findLoop(g, query, current, n) ==
    IF n = 0 THEN g
    ELSE LET c2 == nextSearchLine(g.searchForward, current, Len(g.e.row))
             r == g.e.row[c2 + 1]
             idx == Index(r.render, query)
             g1 == [g EXCEPT !.examined = Append(g.examined, c2)]
         IN  IF idx >= 0
             THEN highlightSearchResult(
                      [g1 EXCEPT !.lastMatchLine = c2,
                                 !.e.cy = c2,
                                 !.e.cx = editorRowRxToCx(r, idx),
                                 !.e.rowOffset = Len(g.e.row)],
                      c2, query, idx)
             ELSE findLoop(g1, query, c2, n - 1)

\* editorFindCallback(query, key) with every arrow searching forward.
editorFindCallback_alwaysForward(g0, query, k) ==
    LET g == clearSearchHighlight(g0)
        reset == [g EXCEPT !.lastMatchLine = -1, !.searchForward = TRUE]
        g1 == IF k \in {arrowRight, arrowDown, arrowLeft, arrowUp}
              THEN [g EXCEPT !.searchForward = TRUE]
              ELSE reset
    IN  IF k = chEnter \/ k = chEsc THEN reset
        ELSE findLoop([g1 EXCEPT !.examined = <<>>], query, g1.lastMatchLine,
                      Len(g1.e.row))

\* editorFindCallback(query, key)
editorFindCallback(g0, query, k) ==
    LET g == clearSearchHighlight(g0)
        reset == [g EXCEPT !.lastMatchLine = -1, !.searchForward = TRUE]
        g1 == IF k = arrowRight \/ k = arrowDown THEN [g EXCEPT !.searchForward = TRUE]
              ELSE IF k = arrowLeft \/ k = arrowUp THEN [g EXCEPT !.searchForward = FALSE]
              ELSE reset
        g2 == IF g1.lastMatchLine = -1 THEN [g1 EXCEPT !.searchForward = TRUE] ELSE g1
    IN  IF k = chEnter \/ k = chEsc THEN reset
        ELSE findLoop([g2 EXCEPT !.examined = <<>>], query, g2.lastMatchLine,
                      Len(g2.e.row))

\* The end of editorFind() on a cancelled search, without its assignments.
editorFindCancelled_noRestore(s, sv) == s

\* The end of editorFind() on a cancelled search: sv holds savedCx, savedCy,
\* savedColOffset and savedRowOffset.
editorFindCancelled(s, sv) ==
    [s EXCEPT !.cx = sv.cx, !.cy = sv.cy, !.colOffset = sv.colOffset,
              !.rowOffset = sv.rowOffset]

\* editorPrompt's buf after the key c
promptBuf(b, c) ==
    IF c = backspace \/ c = ctrl(104) \/ c = delete
    THEN IF Len(b) > 0 THEN Slice(b, 0, Len(b) - 1) ELSE b
    ELSE IF c >= chSpace /\ c <= chTilde THEN b \o EncodeRune(c)
    ELSE b

----------------------------------------------------------------------------
(* Bounds of the model, and the inputs it draws.                           *)

MaxRows == 3        \* rows a document may grow to
MaxChars == 4       \* raw bytes a document may grow to
MaxNewChars == 3    \* raw bytes a document may grow to under SpecNew
MaxTextRows == 2    \* rows a document may grow to under SpecText
MaxTextChars == 3   \* raw bytes a document may grow to under SpecText

\* The terminal's size less the two status rows: tall and wide enough that
\* the documents of Spec and SpecText never scroll.
WideRows == 8
WideCols == 48

\* The characters typed into a document under Spec and SpecNew: '/', '*'.
EditChars == {chSlash, 42}

\* The characters typed into a document under SpecText: Tab, Ctrl-J and
\* the byte 0xE9, which editorReadKey returns as the rune U+00E9.
TextChars == {chTab, chNewline, 233}

\* The terminal's size less the two status rows under SpecFind.
FindRows == 2
FindCols == 2

\* The files SpecFind starts from: "x" holding "abc", "def", "abc", and
\* ".go" holding "//d" and a tab followed by "d".
FindFiles ==
    { [path |-> <<120>>, text |-> <<97, 98, 99, 10, 100, 101, 102, 10, 97, 98, 99>>],
      [path |-> <<46, 103, 111>>, text |-> <<47, 47, 100, 10, 9, 100>>] }

\* The queries typed at the "Search" prompt: "abc", "d" and "ba".
Queries == { <<97, 98, 99>>, <<100>>, <<98, 97>> }

\* The bytes standard input delivers under SpecKey: 0 to MaxByte.
MaxByte == 127

\* The raw texts SpecCol draws: up to MaxColLen bytes out of Tab, 'a' and
\* the two bytes 0xC3 0xA9 of U+00E9, whole or apart; and the columns it
\* draws: 0 to MaxCol.
MaxColLen == 3
MaxCol == 17
ColBytes == {chTab, 97, 195, 169}
ColRaws == UNION {[1..n -> ColBytes] : n \in 0..MaxColLen}

\* The documents SpecEdge grows: up to MaxEdgeRows rows and MaxEdgeChars raw
\* bytes.
MaxEdgeRows == 2
MaxEdgeChars == 3

\* The documents SpecPlain grows: up to MaxPlainRows rows and MaxPlainChars
\* raw bytes, each an 'a'.
MaxPlainRows == 2
MaxPlainChars == 3
PlainChars == {97}

\* The names typed at the "Save as" prompt: ".go" and "x".
FileNames == { <<46, 103, 111>>, <<120>> }

IsPrefix(p, t) == Len(p) <= Len(t) /\ SubSeq(t, 1, Len(p)) = p

RECURSIVE docBytesFrom(_, _)
docBytesFrom(rows, k) ==
    IF k > Len(rows) THEN 0 ELSE Len(rows[k].raw) + docBytesFrom(rows, k + 1)

DocBytes(rows) == docBytesFrom(rows, 1)

----------------------------------------------------------------------------
(* The session: one action per key event of the main loop or of a prompt.  *)
(* Each starts with the editorScroll of editorRefreshScreen.  The status   *)
(* message and the drawing are left out: nothing reads them back.          *)

\* initEditor(), the terminal reporting sr + 2 rows and sc columns
initEditor(sr, sc) ==
    [row |-> <<>>, cx |-> 0, cy |-> 0, rx |-> 0, rowOffset |-> 0, colOffset |-> 0,
     screenRows |-> sr, screenCols |-> sc, dirty |-> FALSE,
     filename |-> <<>>, syntax |-> 0]

\* The keys editorProcessKeypress does not hand to editorInsertChar.
commandKeys ==
    {chEnter, ctrl(113), ctrl(115), ctrl(102), arrowUp, arrowDown, arrowLeft,
     arrowRight, pageUp, pageDown, home, ctrl(97), end, ctrl(101), backspace,
     ctrl(104), delete, chEsc, ctrl(108)}

searchGlobals == <<lastMatchLine, searchForward, searchHighlightLine,
                   beforeSearchHighlights, examined>>
promptVars == <<mode, buf, saved>>
decoderVars == <<rdpos, rdseq, nread>>

\* No column conversion is under observation.
noProbe == [raw |-> <<>>, col |-> 0, out |-> 0, op |-> "none"]

InitRest ==
    /\ quitTimes = requiredQuitTimes
    /\ lastMatchLine = -1
    /\ searchForward = TRUE
    /\ searchHighlightLine = 0
    /\ beforeSearchHighlights = <<>>
    /\ examined = <<>>
    /\ mode = "edit"
    /\ buf = <<>>
    /\ saved = [cx |-> 0, cy |-> 0, colOffset |-> 0, rowOffset |-> 0]
    /\ key = 0
    /\ rdpos = "idle"
    /\ rdseq = <<>>
    /\ nread = 0

\* case '\r'
KeyEnter ==
    /\ key' = chEnter
    /\ mode = "edit"
    /\ Len(e.row) < MaxRows
    /\ e' = editorInsertNewline(editorScroll(e))
    /\ quitTimes' = requiredQuitTimes
    /\ UNCHANGED <<searchGlobals, promptVars, decoderVars, probe>>

\* default: editorInsertChar(c)
KeyInsert(c) ==
    /\ key' = c
    /\ mode = "edit"
    /\ c \notin commandKeys
    /\ DocBytes(e.row) + Len(EncodeRune(c)) <= MaxChars
    /\ e.cy = Len(e.row) => Len(e.row) < MaxRows
    /\ e' = editorInsertChar(editorScroll(e), c)
    /\ quitTimes' = requiredQuitTimes
    /\ UNCHANGED <<searchGlobals, promptVars, decoderVars, probe>>

\* case backspace, ctrl('h'), delete
KeyDelete(c) ==
    /\ key' = c
    /\ mode = "edit"
    /\ c \in {backspace, ctrl(104), delete}
    /\ e' = editorDelChar(IF c = delete
                          THEN editorMoveCursor(editorScroll(e), arrowRight)
                          ELSE editorScroll(e))
    /\ quitTimes' = requiredQuitTimes
    /\ UNCHANGED <<searchGlobals, promptVars, decoderVars, probe>>

\* case arrowUp, arrowDown, arrowLeft, arrowRight
KeyMove(c) ==
    /\ key' = c
    /\ mode = "edit"
    /\ c \in {arrowUp, arrowDown, arrowLeft, arrowRight}
    /\ e' = editorMoveCursor(editorScroll(e), c)
    /\ quitTimes' = requiredQuitTimes
    /\ UNCHANGED <<searchGlobals, promptVars, decoderVars, probe>>

\* The body of case pageUp, pageDown on the editor s.
pageMove(s, c) ==
    moveCursorTimes(
        IF c = pageUp THEN [s EXCEPT !.cy = s.rowOffset]
        ELSE [s EXCEPT !.cy = Min(s.rowOffset + s.screenRows - 1, Len(s.row))],
        IF c = pageUp THEN arrowUp ELSE arrowDown,
        s.screenRows)

\* case pageUp, pageDown
KeyPage(c) ==
    /\ key' = c
    /\ mode = "edit"
    /\ c \in {pageUp, pageDown}
    /\ e' = pageMove(editorScroll(e), c)
    /\ quitTimes' = requiredQuitTimes
    /\ UNCHANGED <<searchGlobals, promptVars, decoderVars, probe>>

\* The bodies of case home, ctrl('a') and of case end, ctrl('e') on s.
homeEnd(s, c) ==
    IF c \in {home, ctrl(97)} THEN [s EXCEPT !.cx = 0]
    ELSE IF s.cy < Len(s.row) THEN [s EXCEPT !.cx = Len(s.row[s.cy + 1].raw)]
    ELSE s

\* case home, ctrl('a') and case end, ctrl('e')
KeyHomeEnd(c) ==
    /\ key' = c
    /\ mode = "edit"
    /\ c \in {home, ctrl(97), end, ctrl(101)}
    /\ e' = homeEnd(editorScroll(e), c)
    /\ quitTimes' = requiredQuitTimes
    /\ UNCHANGED <<searchGlobals, promptVars, decoderVars, probe>>

\* case '\x1b', ctrl('l')
KeyEscape(c) ==
    /\ key' = c
    /\ mode = "edit"
    /\ c \in {chEsc, ctrl(108)}
    /\ e' = editorScroll(e)
    /\ quitTimes' = requiredQuitTimes
    /\ UNCHANGED <<searchGlobals, promptVars, decoderVars, probe>>

\* case ctrl('q')
KeyQuit ==
    /\ key' = ctrl(113)
    /\ mode = "edit"
    /\ e' = editorScroll(e)
    /\ IF e.dirty /\ quitTimes > 0
       THEN quitTimes' = quitTimes - 1 /\ mode' = mode
       ELSE quitTimes' = quitTimes /\ mode' = "exit"
    /\ UNCHANGED <<searchGlobals, buf, saved, decoderVars, probe>>

\* The end of editorSave() that clears the dirty flag whether os.WriteFile
\* succeeds or fails.
saveWrite_clears(s, ok) == [s EXCEPT !.dirty = FALSE]

\* The end of editorSave() on the editor s: os.WriteFile writes
\* editorRowsToString() and succeeds (ok) or fails.
saveWrite(s, ok) == IF ok THEN [s EXCEPT !.dirty = FALSE] ELSE s

\* case ctrl('s'): editorSave() up to its prompt, or to its end when the
\* buffer has a name.
KeySave(ok) ==
    /\ key' = ctrl(115)
    /\ mode = "edit"
    /\ IF e.filename = <<>>
       THEN /\ e' = editorScroll(e)
            /\ mode' = "saveas"
            /\ buf' = <<>>
            /\ UNCHANGED quitTimes
       ELSE /\ e' = saveWrite(editorScroll(e), ok)
            /\ quitTimes' = requiredQuitTimes
            /\ UNCHANGED <<mode, buf>>
    /\ UNCHANGED <<searchGlobals, saved, decoderVars, probe>>

\* editorPrompt("Save as: %s") on a key that neither ends nor cancels it
SaveAsKey(c) ==
    /\ key' = c
    /\ mode = "saveas"
    /\ c # chEsc
    /\ c = chEnter => Len(buf) = 0
    /\ \E n \in FileNames : IsPrefix(promptBuf(buf, c), n)
    /\ e' = editorScroll(e)
    /\ buf' = promptBuf(buf, c)
    /\ UNCHANGED <<searchGlobals, mode, saved, quitTimes, decoderVars, probe>>

\* Escape at the prompt: editorSave() ends with "Save aborted".
SaveAsCancel ==
    /\ key' = chEsc
    /\ mode = "saveas"
    /\ e' = editorScroll(e)
    /\ mode' = "edit"
    /\ buf' = <<>>
    /\ quitTimes' = requiredQuitTimes
    /\ UNCHANGED <<searchGlobals, saved, decoderVars, probe>>

\* Enter at the prompt with a name typed: the rest of editorSave().
SaveAsConfirm(ok, alias) ==
    /\ key' = chEnter
    /\ mode = "saveas"
    /\ buf \in FileNames
    /\ e' = saveWrite(editorSelectSyntaxHighlight(
                          [editorScroll(e) EXCEPT !.filename = buf], alias), ok)
    /\ mode' = "edit"
    /\ buf' = <<>>
    /\ quitTimes' = requiredQuitTimes
    /\ UNCHANGED <<searchGlobals, saved, decoderVars, probe>>

\* The search globals and the editor s as the record the search operators
\* work on, and the variables after them.
searchState(s) ==
    [e |-> s, lastMatchLine |-> lastMatchLine, searchForward |-> searchForward,
     searchHighlightLine |-> searchHighlightLine,
     beforeSearchHighlights |-> beforeSearchHighlights, examined |-> examined]

setSearchState(g) ==
    /\ lastMatchLine' = g.lastMatchLine
    /\ searchForward' = g.searchForward
    /\ searchHighlightLine' = g.searchHighlightLine
    /\ beforeSearchHighlights' = g.beforeSearchHighlights
    /\ examined' = g.examined

\* case ctrl('f'): editorFind() up to its prompt
KeyFind ==
    /\ key' = ctrl(102)
    /\ mode = "edit"
    /\ e' = editorScroll(e)
    /\ saved' = [cx |-> e'.cx, cy |-> e'.cy, colOffset |-> e'.colOffset,
                 rowOffset |-> e'.rowOffset]
    /\ mode' = "find"
    /\ buf' = <<>>
    /\ examined' = <<>>
    /\ UNCHANGED <<lastMatchLine, searchForward, searchHighlightLine,
                   beforeSearchHighlights, quitTimes, decoderVars, probe>>

\* editorPrompt("Search: %s") on a key that neither ends nor cancels it
FindKey(c) ==
    /\ key' = c
    /\ mode = "find"
    /\ c # chEsc
    /\ c = chEnter => Len(buf) = 0
    /\ \E q \in Queries : IsPrefix(promptBuf(buf, c), q)
    /\ buf' = promptBuf(buf, c)
    /\ LET g == editorFindCallback(searchState(editorScroll(e)), buf', c)
       IN  e' = g.e /\ setSearchState(g)
    /\ UNCHANGED <<mode, saved, quitTimes, decoderVars, probe>>

\* Escape at the prompt: the callback, then the end of editorFind()
FindCancel ==
    /\ key' = chEsc
    /\ mode = "find"
    /\ LET g == editorFindCallback(searchState(editorScroll(e)), buf, chEsc)
       IN  e' = editorFindCancelled(g.e, saved) /\ setSearchState(g)
    /\ mode' = "edit"
    /\ buf' = <<>>
    /\ quitTimes' = requiredQuitTimes
    /\ UNCHANGED <<saved, decoderVars, probe>>

\* Enter at the prompt with a query typed: the callback, and editorFind()
\* keeps the cursor where the search left it
FindConfirm ==
    /\ key' = chEnter
    /\ mode = "find"
    /\ Len(buf) > 0
    /\ LET g == editorFindCallback(searchState(editorScroll(e)), buf, chEnter)
       IN  e' = g.e /\ setSearchState(g)
    /\ mode' = "edit"
    /\ buf' = <<>>
    /\ quitTimes' = requiredQuitTimes
    /\ UNCHANGED <<saved, decoderVars, probe>>

----------------------------------------------------------------------------
(* editorReadKey, one action per read of standard input.  rdpos is the     *)
(* read the call is blocked in: "idle" (no call under way, or the call     *)
(* blocked in its first read), "seq0", "seq1", "seq2".  A return assigns   *)
(* key and leaves rdseq and nread as the call had them.                    *)

\* The switch on seq[1] under seq[0] == '[', which maps 'C' to arrowLeft
\* and 'D' to arrowRight.
bracketLetter_swapped(b) ==
    IF b = 65 THEN arrowUp
    ELSE IF b = 66 THEN arrowDown
    ELSE IF b = 67 THEN arrowLeft
    ELSE IF b = 68 THEN arrowRight
    ELSE IF b = 72 THEN home
    ELSE IF b = 70 THEN end
    ELSE chEsc

\* The switch on seq[1] under seq[0] == '[', seq[1] no digit: 'A', 'B',
\* 'C', 'D', 'H', 'F', or the final return
bracketLetter(b) ==
    IF b = 65 THEN arrowUp
    ELSE IF b = 66 THEN arrowDown
    ELSE IF b = 67 THEN arrowRight
    ELSE IF b = 68 THEN arrowLeft
    ELSE IF b = 72 THEN home
    ELSE IF b = 70 THEN end
    ELSE chEsc

\* The switch on seq[1] under seq[2] == '~' that returns the digit itself
\* where none of its cases applies.
bracketDigit_passes(d, t) ==
    IF t # chTilde THEN chEsc
    ELSE IF d = 49 \/ d = 55 THEN home
    ELSE IF d = 52 \/ d = 56 THEN end
    ELSE IF d = 51 THEN delete
    ELSE IF d = 53 THEN pageUp
    ELSE IF d = 54 THEN pageDown
    ELSE d

\* The switch on seq[1] under seq[0] == '[', seq[1] the digit d and seq[2]
\* the byte t: '1', '7', '4', '8', '3', '5', '6', or the final return
bracketDigit(d, t) ==
    IF t # chTilde THEN chEsc
    ELSE IF d = 49 \/ d = 55 THEN home
    ELSE IF d = 52 \/ d = 56 THEN end
    ELSE IF d = 51 THEN delete
    ELSE IF d = 53 THEN pageUp
    ELSE IF d = 54 THEN pageDown
    ELSE chEsc

\* The switch on seq[1] under seq[0] == 'O': 'H', 'F', or the final return
letterO(b) ==
    IF b = 72 THEN home
    ELSE IF b = 70 THEN end
    ELSE chEsc

\* seq[1] >= '0' && seq[1] <= '9' under seq[0] == '['
readsThird(s0, s1) == s0 = chLBracket /\ s1 >= chZero /\ s1 <= chNine

\* What editorReadKey returns once seq[0] and seq[1] are read and no third
\* byte is.
afterTwo(s0, s1) ==
    IF s0 = chLBracket THEN bracketLetter(s1)
    ELSE IF s0 = chUpperO THEN letterO(s1)
    ELSE chEsc

\* A read of standard input delivers the byte b.
ReadByte(b) ==
    /\ mode = "edit"
    /\ \/ /\ rdpos = "idle"
          /\ rdseq' = <<b>>
          /\ nread' = 1
          /\ IF b # chEsc
             THEN key' = b /\ rdpos' = "idle"
             ELSE key' = key /\ rdpos' = "seq0"
       \/ /\ rdpos = "seq0"
          /\ rdseq' = Append(rdseq, b)
          /\ nread' = nread + 1
          /\ key' = key
          /\ rdpos' = "seq1"
       \/ /\ rdpos = "seq1"
          /\ rdseq' = Append(rdseq, b)
          /\ nread' = nread + 1
          /\ IF readsThird(rdseq[2], b)
             THEN key' = key /\ rdpos' = "seq2"
             ELSE key' = afterTwo(rdseq[2], b) /\ rdpos' = "idle"
       \/ /\ rdpos = "seq2"
          /\ rdseq' = Append(rdseq, b)
          /\ nread' = nread + 1
          /\ key' = bracketDigit(rdseq[3], b)
          /\ rdpos' = "idle"
    /\ UNCHANGED <<e, quitTimes, searchGlobals, promptVars, probe>>

\* The first read times out (io.EOF): the loop reads again.
ReadTimeout ==
    /\ mode = "edit"
    /\ rdpos = "idle"
    /\ UNCHANGED vars

\* The first read fails with another error: die().
ReadError ==
    /\ mode = "edit"
    /\ rdpos = "idle"
    /\ mode' = "exit"
    /\ rdseq' = <<>>
    /\ nread' = 0
    /\ UNCHANGED <<e, quitTimes, searchGlobals, buf, saved, key, rdpos, probe>>

\* A read of seq[0], seq[1] or seq[2] fails or times out: return '\x1b'.
ReadFail ==
    /\ mode = "edit"
    /\ rdpos \in {"seq0", "seq1", "seq2"}
    /\ key' = chEsc
    /\ rdpos' = "idle"
    /\ UNCHANGED <<e, quitTimes, searchGlobals, promptVars, rdseq, nread, probe>>

----------------------------------------------------------------------------
(* The column conversions applied to a drawn row and column.               *)

\* editorRowRxToCx(row, rx) on the drawn raw text and column
ApplyRxToCx ==
    /\ probe.op = "none"
    /\ probe' = [probe EXCEPT
                   !.out = editorRowRxToCx(newRow(0, probe.raw), probe.col),
                   !.op = "RxToCx"]
    /\ UNCHANGED <<e, quitTimes, searchGlobals, promptVars, key, decoderVars>>

\* editorRowCxToRx(row, cx) on the drawn raw text and column, the column
\* within the row
ApplyCxToRx ==
    /\ probe.op = "none"
    /\ probe.col <= Len(probe.raw)
    /\ probe' = [probe EXCEPT
                   !.out = editorRowCxToRx(newRow(0, probe.raw), probe.col),
                   !.op = "CxToRx"]
    /\ UNCHANGED <<e, quitTimes, searchGlobals, promptVars, key, decoderVars>>

\* editorRowCxToRx(row, editorRowRxToCx(row, rx)) on the drawn raw text and
\* column: the render column editorScroll gives the cursor that
\* editorFindCallback has put on render column rx
ApplyRxToCxToRx ==
    /\ probe.op = "none"
    /\ probe' = [probe EXCEPT
                   !.out = editorRowCxToRx(newRow(0, probe.raw),
                               editorRowRxToCx(newRow(0, probe.raw), probe.col)),
                   !.op = "RxToCxToRx"]
    /\ UNCHANGED <<e, quitTimes, searchGlobals, promptVars, key, decoderVars>>

----------------------------------------------------------------------------
(* The row operations called with any position, in or out of range.  The   *)
(* call and its arguments are kept in probe: col the position, out the row *)
(* (from 0) of a character operation, raw the text handed over.            *)

\* slices.Insert(e.row, at, ...) panics when at is no position of e.row;
\* main recovers the panic and calls die().
insertRowPanics(s, at) == at < 0 \/ at > Len(s.row)

\* editorInsertRow(at, line)
CallInsertRow(at, line) ==
    /\ mode = "edit"
    /\ Len(e.row) < MaxEdgeRows
    /\ DocBytes(e.row) + Len(line) <= MaxEdgeChars
    /\ IF insertRowPanics(e, at)
       THEN e' = e /\ mode' = "exit"
       ELSE e' = editorInsertRow(e, at, line) /\ mode' = mode
    /\ probe' = [raw |-> line, col |-> at, out |-> 0, op |-> "insertRow"]
    /\ UNCHANGED <<quitTimes, searchGlobals, buf, saved, key, decoderVars>>

\* editorDelRow(at)
CallDelRow(at) ==
    /\ mode = "edit"
    /\ e' = editorDelRow(e, at)
    /\ probe' = [raw |-> <<>>, col |-> at, out |-> 0, op |-> "delRow"]
    /\ UNCHANGED <<quitTimes, searchGlobals, promptVars, key, decoderVars>>

\* editorRowInsertChar(&e.row[k], at, c)
CallRowInsertChar(k, at, c) ==
    /\ mode = "edit"
    /\ k < Len(e.row)
    /\ DocBytes(e.row) + Len(EncodeRune(c)) <= MaxEdgeChars
    /\ e' = editorRowInsertChar(e, k, at, c)
    /\ probe' = [raw |-> EncodeRune(c), col |-> at, out |-> k, op |-> "insertChar"]
    /\ UNCHANGED <<quitTimes, searchGlobals, promptVars, key, decoderVars>>

\* editorRowDelChar(&e.row[k], at)
CallRowDelChar(k, at) ==
    /\ mode = "edit"
    /\ k < Len(e.row)
    /\ e' = editorRowDelChar(e, k, at)
    /\ probe' = [raw |-> <<>>, col |-> at, out |-> k, op |-> "delChar"]
    /\ UNCHANGED <<quitTimes, searchGlobals, promptVars, key, decoderVars>>

----------------------------------------------------------------------------
(* Spec: editing a file loaded as ".go", empty or of two rows.             *)

Init ==
    /\ e \in {editorOpen(initEditor(WideRows, WideCols), <<46, 103, 111>>, <<>>),
              editorOpen(initEditor(WideRows, WideCols), <<46, 103, 111>>,
                         <<47, 42, 10, 42>>)}
    /\ InitRest
    /\ probe = noProbe

Next ==
    \/ KeyEnter
    \/ \E c \in EditChars : KeyInsert(c)
    \/ \E c \in {backspace, delete} : KeyDelete(c)
    \/ \E c \in {arrowUp, arrowDown, arrowLeft, arrowRight} : KeyMove(c)

Spec == Init /\ [][Next]_vars

----------------------------------------------------------------------------
(* SpecNew: typing into an unnamed buffer and naming it on save.           *)

InitNew ==
    /\ e = initEditor(WideRows, WideCols)
    /\ InitRest
    /\ probe = noProbe

NextNew ==
    \/ KeyEnter
    \/ \E c \in EditChars :
          /\ DocBytes(e.row) + Len(EncodeRune(c)) <= MaxNewChars
          /\ KeyInsert(c)
    \/ \E c \in {arrowUp, arrowLeft} : KeyMove(c)
    \/ \E ok \in BOOLEAN : KeySave(ok)
    \/ \E c \in {46, 103, 111, 120} : SaveAsKey(c)
    \/ SaveAsCancel
    \/ \E ok \in BOOLEAN, alias \in [1..Len(e.row) -> BOOLEAN] : SaveAsConfirm(ok, alias)

SpecNew == InitNew /\ [][NextNew]_vars

----------------------------------------------------------------------------
(* SpecText: typing tabs, line feeds and a two-byte character into an      *)
(* empty file loaded as ".go".                                             *)

InitText ==
    /\ e = editorOpen(initEditor(WideRows, WideCols), <<46, 103, 111>>, <<>>)
    /\ InitRest
    /\ probe = noProbe

NextText ==
    \/ Len(e.row) < MaxTextRows /\ KeyEnter
    \/ \E c \in TextChars :
          /\ DocBytes(e.row) + Len(EncodeRune(c)) <= MaxTextChars
          /\ e.cy = Len(e.row) => Len(e.row) < MaxTextRows
          /\ KeyInsert(c)
    \/ \E c \in {backspace} : KeyDelete(c)
    \/ \E c \in {arrowLeft, arrowUp} : KeyMove(c)
    \/ \E c \in {home, end} : KeyHomeEnd(c)

SpecText == InitText /\ [][NextText]_vars

----------------------------------------------------------------------------
(* SpecFind: moving and searching in a loaded file on a small screen.      *)

InitFind ==
    /\ e \in {editorOpen(initEditor(FindRows, FindCols), f.path, f.text) :
                f \in FindFiles}
    /\ InitRest
    /\ probe = noProbe

NextFind ==
    \/ \E c \in {arrowUp, arrowDown, arrowLeft, arrowRight} : KeyMove(c)
    \/ \E c \in {pageUp, pageDown} : KeyPage(c)
    \/ KeyFind
    \/ \E c \in {97, 98, 99, 100, backspace, chEnter,
                 arrowUp, arrowDown, arrowLeft, arrowRight} : FindKey(c)
    \/ FindCancel
    \/ FindConfirm

SpecFind == InitFind /\ [][NextFind]_vars

----------------------------------------------------------------------------
(* SpecKey: editorReadKey on every sequence of bytes, failed reads and     *)
(* time-outs.                                                              *)

InitKey ==
    /\ e = initEditor(WideRows, WideCols)
    /\ InitRest
    /\ probe = noProbe

NextKey ==
    \/ \E b \in 0..MaxByte : ReadByte(b)
    \/ ReadTimeout
    \/ ReadError
    \/ ReadFail

SpecKey == InitKey /\ [][NextKey]_vars

----------------------------------------------------------------------------
(* SpecCol: the column conversions on every drawn row and column.          *)

InitCol ==
    /\ e = initEditor(WideRows, WideCols)
    /\ InitRest
    /\ probe \in [raw : ColRaws, col : 0..MaxCol, out : {0}, op : {"none"}]

NextCol ==
    \/ ApplyRxToCx
    \/ ApplyCxToRx
    \/ ApplyRxToCxToRx

SpecCol == InitCol /\ [][NextCol]_vars

----------------------------------------------------------------------------
(* SpecPlain: typing, deleting and searching in an unnamed buffer, which   *)
(* has no profile.                                                         *)

InitPlain ==
    /\ e = initEditor(WideRows, WideCols)
    /\ InitRest
    /\ probe = noProbe

NextPlain ==
    \/ Len(e.row) < MaxPlainRows /\ KeyEnter
    \/ \E c \in PlainChars :
          /\ DocBytes(e.row) + Len(EncodeRune(c)) <= MaxPlainChars
          /\ e.cy = Len(e.row) => Len(e.row) < MaxPlainRows
          /\ KeyInsert(c)
    \/ \E c \in {backspace} : KeyDelete(c)
    \/ \E c \in {arrowUp, arrowLeft} : KeyMove(c)
    \/ KeyFind
    \/ \E c \in PlainChars \cup {arrowDown} : FindKey(c)
    \/ FindCancel
    \/ FindConfirm

SpecPlain == InitPlain /\ [][NextPlain]_vars

----------------------------------------------------------------------------
(* SpecEdge: the row operations on a file loaded as ".go", called with     *)
(* every position from one before the first to one past the end.           *)

InitEdge ==
    /\ e = editorOpen(initEditor(WideRows, WideCols), <<46, 103, 111>>, <<>>)
    /\ InitRest
    /\ probe = noProbe

NextEdge ==
    \/ \E at \in -1..(Len(e.row) + 1), line \in {<<>>, <<chSlash>>} :
          CallInsertRow(at, line)
    \/ \E at \in -1..(Len(e.row) + 1) : CallDelRow(at)
    \/ \E k \in 0..(MaxEdgeRows - 1), at \in -1..(MaxEdgeChars + 1), c \in EditChars :
          CallRowInsertChar(k, at, c)
    \/ \E k \in 0..(MaxEdgeRows - 1), at \in -1..(MaxEdgeChars + 1) :
          CallRowDelChar(k, at)

SpecEdge == InitEdge /\ [][NextEdge]_vars

----------------------------------------------------------------------------
(* Properties.                                                             *)

\* Row k (from 1) of the editor s holds the tags and the open-comment flag
\* that a scan of its render gives, started with the stored flag of the
\* row before it (false for the first row).
rowScanned(s, k) ==
    LET r == s.row[k]
        res == scanRow(highlightDB[s.syntax], r.render, r.highlight,
                       k > 1 /\ s.row[k - 1].hasOpenComment)
    IN  r.highlight = res.highlight /\ r.hasOpenComment = res.isInComment

\* C1: with a profile selected, after every character insertion or
\* deletion, newline split, Backspace merge at column 0 and row insertion
\* or deletion, each row's stored tags and open-comment flag are those of a
\* scan of its render started with the stored flag of the row before it.
C1_RowsScanned ==
    e.syntax # 0 => \A k \in 1..Len(e.row) : rowScanned(e, k)

\* Row 1 of the editor s opens a block comment that no row closes.
openedAndNeverClosed(s) ==
    /\ s.syntax # 0
    /\ Len(highlightDB[s.syntax].multilineCommentStart) > 0
    /\ Len(highlightDB[s.syntax].multilineCommentEnd) > 0
    /\ Len(s.row) > 0
    /\ scanRow(highlightDB[s.syntax], s.row[1].render, s.row[1].highlight,
               FALSE).isInComment
    /\ \A k \in 1..Len(s.row) :
          ~Contains(s.row[k].render, highlightDB[s.syntax].multilineCommentEnd)

\* C2: whenever a profile with block-comment markers is active, the first
\* row opens a block comment and no row holds the closer, every later row
\* has its open-comment flag set and all its tags block-comment.
C2_CommentCarried ==
    openedAndNeverClosed(e) =>
        \A k \in 2..Len(e.row) :
            /\ e.row[k].hasOpenComment
            /\ \A j \in 1..Len(e.row[k].highlight) :
                  e.row[k].highlight[j] = highlightMultiComment

\* C3: every row's idx is its position in the document, counted from 0.
C3_IdxIsPosition ==
    \A k \in 1..Len(e.row) : e.row[k].idx = k - 1

\* A Backspace that left the document at its full size joined two rows: the
\* row after them moved up by one.
C3_Witness ==
    /\ key = backspace
    /\ DocBytes(e.row) = MaxChars
    /\ Len(e.row) = 2
    /\ e.cy = 0
    /\ e.cx > 0

\* C4: every row has as many highlight tags as rendered bytes, and at least
\* as many rendered bytes as raw bytes.
C4_Lengths ==
    \A k \in 1..Len(e.row) :
        /\ Len(e.row[k].highlight) = Len(e.row[k].render)
        /\ Len(e.row[k].render) >= Len(e.row[k].raw)

\* A Backspace has cut a two-byte character in a row that holds a tab: the
\* row renders longer than it is.
C4_Witness ==
    /\ key = backspace
    /\ \E k \in 1..Len(e.row) :
          /\ Contains(e.row[k].raw, <<chTab>>)
          /\ Contains(e.row[k].raw, <<195>>)
          /\ ~Contains(e.row[k].raw, <<195, 169>>)
          /\ Len(e.row[k].render) > Len(e.row[k].raw)

\* The raw contents of the rows, in order.
rawsOf(rows) == AsSeq([k \in 1..Len(rows) |-> rows[k].raw])

\* C5: the rows written by a save, split into rows as a load splits them,
\* are the rows of the document.
C5_RoundTrip ==
    Lines(editorRowsToString(e.row)) = rawsOf(e.row)

\* The rows (from 0) of the document whose render contains the query q.
matchingRows(rows, q) ==
    {r \in 0..(Len(rows) - 1) : Contains(rows[r + 1].render, q)}

\* The least element of the non-empty set S of numbers.
least(S) == CHOOSE x \in S : \A y \in S : x <= y

\* The matching row that follows the anchor a, wrapping to the first one.
matchAfter(rows, q, a) ==
    LET M == matchingRows(rows, q)
    IN  IF \E r \in M : r > a THEN least({r \in M : r > a}) ELSE least(M)

\* A step of the search prompt that hands the query to the search loop: a
\* key other than Enter and Escape.
queryEvent == mode = "find" /\ mode' = "find" /\ key' # chEnter

\* C6: a query event that starts with no anchor (there is none, or the key
\* is not an arrow) sets the anchor to the lowest row whose render contains
\* the query; a Right or Down arrow with an anchor moves it to the next
\* such row, wrapping from the last row to row 0 (rows "abc", "def", "abc"
\* and query "abc": 0, 2, 0); and no query event reads a row twice.
C6_SearchOrder ==
    [][queryEvent =>
        LET M == matchingRows(e.row, buf')
            arrows == {arrowUp, arrowDown, arrowLeft, arrowRight}
        IN  /\ (lastMatchLine = -1 \/ key' \notin arrows) =>
                  lastMatchLine' = (IF M = {} THEN -1 ELSE least(M))
            /\ (lastMatchLine # -1 /\ key' \in {arrowRight, arrowDown} /\ M # {}) =>
                  lastMatchLine' = matchAfter(e.row, buf', lastMatchLine)
            /\ Len(examined') <= Len(e.row)
            /\ \A i, j \in 1..Len(examined') :
                  examined'[i] = examined'[j] => i = j]_vars

\* Rows "abc", "def", "abc" and query "abc": a Down arrow, the anchor on
\* row 2, has wrapped to row 0 and stopped there.
C6_Witness ==
    /\ mode = "find"
    /\ rawsOf(e.row) = << <<97, 98, 99>>, <<100, 101, 102>>, <<97, 98, 99>> >>
    /\ buf = <<97, 98, 99>>
    /\ key = arrowDown
    /\ searchForward
    /\ examined = <<0>>
    /\ lastMatchLine = 0

\* C7: Escape at the search prompt leaves the cursor and the scroll offsets
\* as editorFind saved them on entry, no anchor, the forward direction, and
\* no search-match tag on any row.
C7_CancelRestores ==
    [][(mode = "find" /\ key' = chEsc) =>
        /\ e'.cx = saved.cx
        /\ e'.cy = saved.cy
        /\ e'.colOffset = saved.colOffset
        /\ e'.rowOffset = saved.rowOffset
        /\ lastMatchLine' = -1
        /\ searchForward'
        /\ \A k \in 1..Len(e'.row) : \A j \in 1..Len(e'.row[k].highlight) :
              e'.row[k].highlight[j] # highlightMatch]_vars

\* A search entered away from the top was cancelled after its last search
\* loop had stopped on a match in another row than the one it was entered
\* on.
C7_Witness ==
    /\ mode = "edit"
    /\ key = chEsc
    /\ saved.cy > 0
    /\ e.cy = saved.cy
    /\ Len(examined) > 0
    /\ Len(examined) < Len(e.row)
    /\ examined[Len(examined)] # e.cy

\* A call of editorReadKey has returned.
returned == mode = "edit" /\ rdpos = "idle" /\ nread > 0

\* The event the decoder's table gives for the bytes seq, or 0 where the
\* table has none.
tableEvent(seq) ==
    IF seq[1] # chEsc THEN seq[1]
    ELSE IF Len(seq) = 3 /\ seq[2] = chLBracket /\ seq[3] \in {65, 66, 67, 68, 72, 70}
    THEN CASE seq[3] = 65 -> arrowUp
           [] seq[3] = 66 -> arrowDown
           [] seq[3] = 67 -> arrowRight
           [] seq[3] = 68 -> arrowLeft
           [] seq[3] = 72 -> home
           [] seq[3] = 70 -> end
    ELSE IF Len(seq) = 3 /\ seq[2] = chUpperO /\ seq[3] \in {72, 70}
    THEN (IF seq[3] = 72 THEN home ELSE end)
    ELSE IF Len(seq) = 4 /\ seq[2] = chLBracket /\ seq[4] = chTilde
            /\ seq[3] \in {49, 55, 52, 56, 51, 53, 54}
    THEN CASE seq[3] \in {49, 55} -> home
           [] seq[3] \in {52, 56} -> end
           [] seq[3] = 51 -> delete
           [] seq[3] = 53 -> pageUp
           [] seq[3] = 54 -> pageDown
    ELSE 0

\* C8: a first byte other than ESC is returned as it is after one byte is
\* read; ESC [ A, B, C, D are up, down, right, left; ESC [ H and ESC O H
\* are home, ESC [ F and ESC O F end; ESC [ d ~ is home for d 1 or 7, end
\* for 4 or 8, delete for 3, page-up for 5, page-down for 6.
C8_KeyTable ==
    (returned /\ tableEvent(rdseq) # 0) =>
        /\ key = tableEvent(rdseq)
        /\ rdseq[1] # chEsc => nread = 1

\* The call has read ESC [ C and returned.
C8_Witness ==
    returned /\ rdseq = <<chEsc, chLBracket, 67>> /\ key = arrowRight

\* C9: a call that has read ESC and then no sequence of the table returns
\* '\x1b'; only a failure of the first read ends the program; a call reads
\* at most four bytes, each of them into c or seq, and a call blocked in
\* the read of seq[0] holds the ESC it has read and nothing else.
C9_BareEscape ==
    /\ (returned /\ rdseq[1] = chEsc /\ tableEvent(rdseq) = 0) => key = chEsc
    /\ mode = "exit" => nread = 0
    /\ nread <= 4
    /\ Len(rdseq) = nread
    /\ rdpos = "seq0" => rdseq = <<chEsc>>

\* The call has read ESC [ 2 ~ and returned '\x1b'.
C9_Witness ==
    returned /\ rdseq = <<chEsc, chLBracket, 50, chTilde>> /\ key = chEsc

\* The byte offsets at which the characters of raw start, in order, as a
\* range over the string yields them.
RECURSIVE charStartsFrom(_, _)
charStartsFrom(raw, i) ==
    IF i >= Len(raw) THEN <<>>
    ELSE <<i>> \o charStartsFrom(raw, i + DecodeRuneAt(raw, i).size)

\* A row that holds the characters of raw one byte each: a tab for a tab,
\* 'a' for any other.
oneByteRow(raw) ==
    LET st == charStartsFrom(raw, 0)
    IN  newRow(0, AsSeq([k \in 1..Len(st) |->
                            IF raw[st[k] + 1] = chTab THEN chTab ELSE 97]))

\* C10, as amended: editorRowRxToCx(row, rx) is the raw column of the first
\* character that ends beyond render column rx, a tab ending on the next
\* tab stop and any other character one column on, and the raw length when
\* none does; on a row of one-byte characters that is the smallest column c
\* with editorRowCxToRx(row, c + 1) > rx.
C10_RxToCx ==
    probe.op = "RxToCx" =>
        LET st == charStartsFrom(probe.raw, 0)
            row == oneByteRow(probe.raw)
            past == {k \in 1..Len(st) : editorRowCxToRx(row, k) > probe.col}
        IN  probe.out = (IF past = {} THEN Len(probe.raw) ELSE st[least(past)])

\* The conversion of render column 8 on the row "a", tab, "a": the second
\* 'a', at raw column 2.
C10_Witness ==
    /\ probe.op = "RxToCx"
    /\ probe.raw = <<97, chTab, 97>>
    /\ probe.col = 8
    /\ probe.out = 2

\* C10 as stated: editorRowRxToCx(row, rx) is the smallest raw column whose
\* render column exceeds rx, and the raw length when rx is beyond the
\* rendered end.
C10_SmallestBeyond ==
    probe.op = "RxToCx" =>
        LET row == newRow(0, probe.raw)
            past == {c \in 0..Len(probe.raw) : editorRowCxToRx(row, c) > probe.col}
        IN  probe.out = (IF past = {} THEN Len(probe.raw) ELSE least(past))

\* The render columns of the raw column boundaries of a row holding raw.
boundaryColumns(raw) ==
    {editorRowCxToRx(newRow(0, raw), c) : c \in 0..Len(raw)}

\* The greatest element of the non-empty set S of numbers.
greatest(S) == CHOOSE x \in S : \A y \in S : y <= x

\* Every character of raw is one byte.
oneByteChars(raw) == \A i \in 1..Len(raw) : raw[i] < 128

\* C11, as amended: on a row of one-byte characters, tabs included,
\* editorRowCxToRx(row, editorRowRxToCx(row, rx)) is the largest render
\* column <= rx that is the render column of a raw column boundary.
C11_LargestAtMost ==
    (probe.op = "RxToCxToRx" /\ oneByteChars(probe.raw)) =>
        probe.out = greatest({b \in boundaryColumns(probe.raw) : b <= probe.col})

\* Render column 3 of the row tab, "a" lies in the tab, whose boundaries are
\* 0 and 8: the round trip gives 0.
C11_Witness ==
    /\ probe.op = "RxToCxToRx"
    /\ probe.raw = <<chTab, 97>>
    /\ probe.col = 3
    /\ probe.out = 0

\* C11 as stated: for rx within the rendered length,
\* editorRowCxToRx(row, editorRowRxToCx(row, rx)) is the smallest render
\* column >= rx that is the render column of a raw column boundary.
C11_SmallestAtLeast ==
    (probe.op = "RxToCxToRx" /\ probe.col <= Len(renderOf(probe.raw))) =>
        LET atLeast == {b \in boundaryColumns(probe.raw) : b >= probe.col}
        IN  atLeast # {} => probe.out = least(atLeast)

\* C12: in every row editorRowCxToRx does not decrease from a raw column to
\* the next, a byte that is no tab advances it by 1, a tab at render
\* column p advances it to the next multiple of tabStop above p, and the
\* rendered text is as long as editorRowCxToRx of the raw length.
C12_RenderColumns ==
    \A k \in 1..Len(e.row) :
        /\ \A c \in 1..Len(e.row[k].raw) :
              LET p == editorRowCxToRx(e.row[k], c - 1)
                  q == editorRowCxToRx(e.row[k], c)
              IN  /\ q >= p
                  /\ e.row[k].raw[c] # chTab => q = p + 1
                  /\ e.row[k].raw[c] = chTab => q = ((p \div tabStop) + 1) * tabStop
        /\ Len(e.row[k].render) = editorRowCxToRx(e.row[k], Len(e.row[k].raw))

\* C13: a row operation called with a position out of range raises no
\* error: editorDelRow leaves the document as it is, editorRowInsertChar
\* inserts at the end of the row, editorRowDelChar leaves the row as it
\* is, and editorInsertRow does not end the program.
C13_NoError ==
    [][/\ (probe'.op = "insertRow"
            /\ (probe'.col < 0 \/ probe'.col > Len(e.row))) =>
              mode' # "exit"
       /\ (probe'.op = "delRow"
            /\ (probe'.col < 0 \/ probe'.col >= Len(e.row))) =>
              e'.row = e.row /\ mode' # "exit"
       /\ (probe'.op = "insertChar"
            /\ (probe'.col < 0 \/ probe'.col > Len(e.row[probe'.out + 1].raw))) =>
              /\ e'.row[probe'.out + 1].raw =
                     e.row[probe'.out + 1].raw \o probe'.raw
              /\ mode' # "exit"
       /\ (probe'.op = "delChar"
            /\ (probe'.col < 0 \/ probe'.col >= Len(e.row[probe'.out + 1].raw))) =>
              e'.row[probe'.out + 1] = e.row[probe'.out + 1] /\ mode' # "exit"
      ]_vars

\* C14: a save whose write fails leaves every row's raw text and the dirty
\* flag as they were; the dirty flag is cleared only by a save whose write
\* succeeds; and every step that changes the rows' raw texts sets it.
C14_FailedWrite ==
    [][/\ (KeySave(FALSE)
            \/ \E alias \in [1..Len(e.row) -> BOOLEAN] : SaveAsConfirm(FALSE, alias)) =>
              rawsOf(e'.row) = rawsOf(e.row) /\ e'.dirty = e.dirty
       /\ (e.dirty /\ ~e'.dirty) =>
              \/ KeySave(TRUE) /\ e.filename # <<>>
              \/ \E alias \in [1..Len(e.row) -> BOOLEAN] : SaveAsConfirm(TRUE, alias)
       /\ rawsOf(e'.row) # rawsOf(e.row) => e'.dirty
      ]_vars

\* Ctrl-S on a named buffer has left the buffer modified: the write failed.
C14_Witness ==
    /\ key = ctrl(115)
    /\ mode = "edit"
    /\ e.filename # <<>>
    /\ e.dirty
    /\ DocBytes(e.row) > 0

\* C15: with no profile selected and no search under way, every tag of
\* every row is normal.
C15_PlainTags ==
    (e.syntax = 0 /\ mode = "edit") =>
        \A k \in 1..Len(e.row) : \A j \in 1..Len(e.row[k].highlight) :
            e.row[k].highlight[j] = highlightNormal

\* A search that had stopped on a match in the first of two rows was
\* cancelled, in a buffer without profile one of whose rows has shrunk: its
\* highlight array is longer than its rendered text.
C15_Witness ==
    /\ e.syntax = 0
    /\ mode = "edit"
    /\ key = chEsc
    /\ Len(e.row) = 2
    /\ examined = <<0>>
    /\ \E k \in 1..Len(e.row) :
          Len(e.row[k].hlcap) > 0 /\ Len(e.row[k].render) > 0

----------------------------------------------------------------------------
(* SpecScan: the scan of editorUpdateSyntax, with the Go profile, on every *)
(* drawn rendered text and flag of the previous row.                       *)

MaxWordLen == 4
MaxStringLen == 5

\* i n t f X x, the space and the double quote
WordBytes == {105, 110, 116, 102, 88, 120, chSpace, chDoubleQuote}

\* the two quotes, the backslash, and the bytes of the comment markers
StringBytes == {chDoubleQuote, chSingleQuote, chBackslash, chSlash, 42}

ScanTexts ==
    UNION ({[1..n -> WordBytes] : n \in 0..MaxWordLen}
           \cup {[1..n -> StringBytes] : n \in 0..MaxStringLen})

\* The scan of editorUpdateSyntax on the drawn text, the tags being normal
\* before it; probe.col = 1: the row before it has its open-comment flag
\* set.
ApplyScan ==
    /\ probe.op = "none"
    /\ probe' = [probe EXCEPT
                   !.out = scanRow(highlightDB[1], probe.raw,
                                   Repeat(highlightNormal, Len(probe.raw)),
                                   probe.col = 1),
                   !.op = "scan"]
    /\ UNCHANGED <<e, quitTimes, searchGlobals, promptVars, key, decoderVars>>

InitScan ==
    /\ e = initEditor(WideRows, WideCols)
    /\ InitRest
    /\ probe \in [raw : ScanTexts, col : {0, 1}, out : {0}, op : {"none"}]

NextScan == ApplyScan

SpecScan == InitScan /\ [][NextScan]_vars

\* The keyword patterns of the Go profile, the text of the k-th without its
\* class marker, and its tag.
goKeywords == highlightDB[1].keywords
keywordText(k) == TrimSuffix(goKeywords[k], <<chBar>>)
keywordTag(k) ==
    IF HasSuffix(goKeywords[k], <<chBar>>) THEN highlightKeyword2
    ELSE highlightKeyword1

isKeywordTag(v) == v = highlightKeyword1 \/ v = highlightKeyword2

\* The k-th keyword stands at offset a of render, followed by a separator
\* or the end of the row, and the tags hl carry its tag on exactly its span:
\* the positions next to the span carry no keyword tag.
keywordSpan(render, hl, a, k) ==
    LET stop == a + Len(keywordText(k))
    IN  /\ HasPrefixAt(render, a, keywordText(k))
        /\ stop = Len(render) \/ isSeparator(render[stop + 1])
        /\ \A j \in (a + 1)..stop : hl[j] = keywordTag(k)
        /\ stop < Len(render) => ~isKeywordTag(hl[stop + 1])
        /\ a > 0 => ~isKeywordTag(hl[a])

\* What the scan left of the text w, the row before it having no open
\* comment, is the tags hl.
scanGives(w, hl) ==
    (probe.op = "scan" /\ probe.raw = w /\ probe.col = 0) =>
        probe.out.highlight = hl

\* The four rows "intX", "int ", "int" and "if x".
keywordExamples ==
    /\ scanGives(<<105, 110, 116, 88>>, <<0, 0, 0, 0>>)
    /\ scanGives(<<105, 110, 116, chSpace>>,
                 <<highlightKeyword2, highlightKeyword2, highlightKeyword2,
                   highlightNormal>>)
    /\ scanGives(<<105, 110, 116>>,
                 <<highlightKeyword2, highlightKeyword2, highlightKeyword2>>)
    /\ scanGives(<<105, 102, chSpace, 120>>,
                 <<highlightKeyword1, highlightKeyword1, highlightNormal,
                   highlightNormal>>)

\* Every keyword-tagged position of the scanned row lies in the span of a
\* keyword that carries its tag on exactly its span and starts at a place
\* where before(a) holds.
keywordsTagged(before(_)) ==
    probe.op = "scan" =>
        \A p \in 1..Len(probe.raw) :
            isKeywordTag(probe.out.highlight[p]) =>
                \E a \in 0..(p - 1), k \in 1..Len(goKeywords) :
                    /\ p <= a + Len(keywordText(k))
                    /\ keywordSpan(probe.raw, probe.out.highlight, a, k)
                    /\ before(a)

startsRow(a) == a = 0
afterSeparator(a) == a > 0 /\ isSeparator(probe.raw[a])
afterString(a) == a > 0 /\ probe.out.highlight[a] = highlightString
wordStart(a) == startsRow(a) \/ afterSeparator(a)
wordStartOrAfterString(a) == wordStart(a) \/ afterString(a)

\* C17: when the scan of a row completes, every keyword-tagged position
\* lies in the span of a keyword that starts at the row start, after a
\* separator or after a position tagged string-literal (the closing quote
\* of a string), and is followed by a separator or the end of the row;
\* exactly the positions of the span carry the keyword's tag (secondary for
\* a pattern with the marker, else primary); "intX" has no keyword tag,
\* "int " and "int" have positions 0..2 keyword-secondary, "if x" has
\* positions 0..1 keyword-primary and 2..3 normal.
C17_KeywordSpans == keywordsTagged(wordStartOrAfterString) /\ keywordExamples

\* The scan of "if x" has tagged "if" and nothing else.
C17_Witness ==
    /\ probe.op = "scan"
    /\ probe.col = 0
    /\ probe.raw = <<105, 102, chSpace, 120>>
    /\ probe.out.highlight = <<highlightKeyword1, highlightKeyword1,
                               highlightNormal, highlightNormal>>

\* C17 as stated: a keyword is tagged only where the previous position was
\* a separator, or at the row start.
C17_AfterSeparatorOnly == keywordsTagged(wordStart) /\ keywordExamples

\* The string literals of the text render read from offset i on, delim
\* being the delimiter of the string open there (0: none), l what was found
\* before i: the positions (from 1) inside the literals, quotes included,
\* and whether a line-comment marker or a block-comment opener stands
\* outside them.  A backslash and the character after it are one pair; the
\* delimiter that opened a literal closes it.
RECURSIVE stringLiterals(_, _, _, _)
stringLiterals(render, i, delim, l) ==
    IF i >= Len(render) THEN l
    ELSE IF delim = 0
    THEN IF \/ HasPrefixAt(render, i, highlightDB[1].singleLineCommentStart)
            \/ HasPrefixAt(render, i, highlightDB[1].multilineCommentStart)
         THEN [l EXCEPT !.markerOutside = TRUE]
         ELSE IF render[i + 1] \in {chDoubleQuote, chSingleQuote}
         THEN stringLiterals(render, i + 1, render[i + 1],
                             [l EXCEPT !.inside = @ \cup {i + 1}])
         ELSE stringLiterals(render, i + 1, 0, l)
    ELSE IF render[i + 1] = chBackslash /\ i + 1 < Len(render)
    THEN stringLiterals(render, i + 2, delim,
                        [l EXCEPT !.inside = @ \cup {i + 1, i + 2}])
    ELSE stringLiterals(render, i + 1,
                        IF render[i + 1] = delim THEN 0 ELSE delim,
                        [l EXCEPT !.inside = @ \cup {i + 1}])

literalsOf(render) ==
    stringLiterals(render, 0, 0, [inside |-> {}, markerOutside |-> FALSE])

isCommentTag(v) == v = highlightComment \/ v = highlightMultiComment

\* The text holds a line-comment marker or a block-comment opener.
hasMarker(render) ==
    \E i \in 0..(Len(render) - 1) :
        \/ HasPrefixAt(render, i, highlightDB[1].singleLineCommentStart)
        \/ HasPrefixAt(render, i, highlightDB[1].multilineCommentStart)

\* The scanned row, of which every line-comment marker and block-comment
\* opener lies inside a string literal, has every position of its literals
\* tagged string-literal, no comment tag, and the flag of the row before it.
markersInStringsInert ==
    /\ \A p \in literalsOf(probe.raw).inside :
          probe.out.highlight[p] = highlightString
    /\ \A p \in 1..Len(probe.raw) : ~isCommentTag(probe.out.highlight[p])
    /\ probe.out.isInComment = (probe.col = 1)

\* C18: in a row that follows a row with no open comment, a line-comment
\* marker or block-comment opener inside a string literal is not
\* recognised, and a backslash and the character after it are one
\* string-literal pair that does not close the string: a row whose only
\* comment markers lie inside string literals has its literals tagged
\* string-literal, no comment tag, and no open comment, as the row before.
C18_MarkersInStrings ==
    (probe.op = "scan" /\ probe.col = 0
        /\ ~literalsOf(probe.raw).markerOutside) => markersInStringsInert

\* The scan of the row "\"// (a quote, an escaped quote, a line-comment
\* marker) has tagged it string-literal throughout.
C18_Witness ==
    /\ probe.op = "scan"
    /\ probe.col = 0
    /\ probe.raw = <<chDoubleQuote, chBackslash, chDoubleQuote, chSlash, chSlash>>
    /\ hasMarker(probe.raw)
    /\ ~literalsOf(probe.raw).markerOutside
    /\ probe.out.highlight = Repeat(highlightString, 5)
    /\ ~probe.out.isInComment

\* C18 as stated: whatever the flag of the row before.
C18_WhateverPredecessor ==
    (probe.op = "scan" /\ ~literalsOf(probe.raw).markerOutside) =>
        markersInStringsInert

\* The rows of the file of FindFiles named path as editorOpen leaves them:
\* under SpecFind, which edits nothing, the rows before any search.
loadedRows(path) ==
    LET f == CHOOSE f \in FindFiles : f.path = path
    IN  editorOpen(initEditor(FindRows, FindCols), f.path, f.text).row

\* The rows carry the tags of the rows before.
sameTags(rows, before) ==
    \A k \in 1..Len(rows) : rows[k].highlight = before[k].highlight

\* The rows carry the tags of the rows before, but for row m, which
\* carries search-match on the query's first occurrence in it and the tags
\* before elsewhere.
overlaid(rows, before, m, query) ==
    LET off == Index(rows[m].render, query)
    IN  /\ off >= 0
        /\ \A k \in 1..Len(rows) : k # m =>
              rows[k].highlight = before[k].highlight
        /\ Len(rows[m].highlight) = Len(before[m].highlight)
        /\ \A j \in 1..Len(rows[m].highlight) :
              rows[m].highlight[j] =
                  IF off < j /\ j <= off + Len(query) THEN highlightMatch
                  ELSE before[m].highlight[j]

\* C19: during a search, after every query event, at most one row carries
\* search-match tags, the row of the current match and only on the match's
\* span, every other tag is as it was before the search (the overlay of
\* the event before has been undone), and the snapshot is that row's tags
\* before the overlay; when the search has ended, by Enter or Escape, no
\* tag is search-match and every row's tags are as before the search.
C19_SearchOverlay ==
    /\ mode = "edit" => sameTags(e.row, loadedRows(e.filename))
    /\ (mode = "find" /\ beforeSearchHighlights = <<>>) =>
          sameTags(e.row, loadedRows(e.filename))
    /\ (mode = "find" /\ beforeSearchHighlights # <<>>) =>
          /\ searchHighlightLine = lastMatchLine
          /\ beforeSearchHighlights =
                loadedRows(e.filename)[searchHighlightLine + 1].highlight
          /\ overlaid(e.row, loadedRows(e.filename), searchHighlightLine + 1, buf)

\* The file ".go", query "d": a Down arrow has moved the overlay from the
\* comment row "//d" to the row below it.
C19_Witness ==
    /\ mode = "find"
    /\ key = arrowDown
    /\ buf = <<100>>
    /\ e.filename = <<46, 103, 111>>
    /\ searchHighlightLine = 1
    /\ e.row[1].highlight = Repeat(highlightComment, 3)
    /\ e.row[2].highlight[9] = highlightMatch

\* The pass that examined the rows x of n, in this order, started next to
\* the anchor and stepped forward (or backward), wrapping at the ends.
stepsFrom(x, n, anchor, forward) ==
    /\ Len(x) > 0 =>
          x[1] = (IF forward THEN anchor + 1 ELSE anchor - 1 + n) % n
    /\ \A i \in 1..(Len(x) - 1) :
          x[i + 1] = (IF forward THEN x[i] + 1 ELSE x[i] - 1 + n) % n

\* A query event has kept or reset the anchor and set the direction as
\* dirOf(key, anchor) says, and its pass has stepped in that direction: an
\* arrow keeps the anchor, any other key sets it to none; the anchor after
\* the pass is the row of the match, or the one the pass started from.
queryEventSets(dirOf(_, _)) ==
    queryEvent =>
        LET nav == key' \in {arrowUp, arrowDown, arrowLeft, arrowRight}
            anchor == IF nav THEN lastMatchLine ELSE -1
            forward == ~nav \/ dirOf(key', anchor)
            n == Len(e.row)
        IN  /\ searchForward' = forward
            /\ Len(examined') > 0
            /\ stepsFrom(examined', n, anchor, forward)
            /\ lastMatchLine' =
                  IF Contains(e.row[examined'[Len(examined')] + 1].render, buf')
                  THEN examined'[Len(examined')]
                  ELSE anchor

keyDirection(k, anchor) == k \in {arrowRight, arrowDown}
keyDirectionFromAnchor(k, anchor) == anchor = -1 \/ k \in {arrowRight, arrowDown}

\* C20: on a query event triggered by an arrow the anchor is not reset, and
\* the direction is set to the key's (forward for Right and Down, backward
\* for Left and Up) when there is an anchor, and to forward when there is
\* none; on a query event triggered by any other key the anchor is reset
\* to none and the direction to forward; the pass then steps in the
\* direction just set, from the anchor.
C20_Direction == [][queryEventSets(keyDirectionFromAnchor)]_vars

\* An Up arrow pressed with no anchor has searched forward from row 0.
C20_Witness ==
    /\ mode = "find"
    /\ key = arrowUp
    /\ searchForward
    /\ Len(examined) > 0
    /\ examined[1] = 0

\* C20 as stated: an arrow sets the direction to the key's whatever the
\* anchor, none included.
C20_KeyDirection == [][queryEventSets(keyDirection)]_vars

\* The tags of row k (from 1) once clearSearchHighlight has run: the
\* snapshot on the row it was taken from, the row's own tags elsewhere.
restoredTags(k) ==
    IF beforeSearchHighlights # <<>> /\ k = searchHighlightLine + 1
    THEN beforeSearchHighlights
    ELSE e.row[k].highlight

\* C21: a query event whose query no row's rendered text contains leaves,
\* after its pass, the cursor row and column and the scroll offsets as the
\* screen refresh before the key left them, the anchor as the start of the
\* event set it (kept by an arrow, none after any other key), every row's
\* tags as the overlay restore left them, every row's text as it was, and
\* no snapshot.
C21_NoMatch ==
    [][(queryEvent /\ matchingRows(e.row, buf') = {}) =>
        /\ e'.cx = e.cx
        /\ e'.cy = e.cy
        /\ e'.rowOffset = editorScroll(e).rowOffset
        /\ e'.colOffset = editorScroll(e).colOffset
        /\ lastMatchLine' =
              (IF key' \in {arrowUp, arrowDown, arrowLeft, arrowRight}
               THEN lastMatchLine ELSE -1)
        /\ Len(e'.row) = Len(e.row)
        /\ \A k \in 1..Len(e.row) :
              /\ e'.row[k].highlight = restoredTags(k)
              /\ e'.row[k].render = e.row[k].render
              /\ e'.row[k].raw = e.row[k].raw
        /\ beforeSearchHighlights' = <<>>]_vars

\* The file "x", query "ba": the 'a' typed after "b", which had matched
\* row 0 at column 1, has searched all three rows, found nothing, and left
\* the cursor there and the overlay undone.
C21_Witness ==
    /\ mode = "find"
    /\ key = 97
    /\ buf = <<98, 97>>
    /\ Len(examined) = 3
    /\ e.cy = 0
    /\ e.cx = 1
    /\ lastMatchLine = -1
    /\ beforeSearchHighlights = <<>>
    /\ \A k \in 1..3 : e.row[k].highlight = Repeat(highlightNormal, 3)

----------------------------------------------------------------------------
(* SpecCursor: every key that moves the cursor, in an unnamed buffer, on   *)
(* terminals of 2 rows and more: screenRows, the terminal's rows less the  *)
(* two status rows, starts at 0.                                           *)

MaxCursorRows == 2      \* rows a document may grow to under SpecCursor
MaxCursorChars == 2     \* raw bytes a document may grow to under SpecCursor
MaxScreenRows == 1      \* the tallest screen of SpecCursor

\* The character typed under SpecCursor: 'a'.
CursorChars == {97}

\* The cursor of the editor s is on the document: on a row and within its
\* raw text, or one past the last row in column 0.
cursorInBounds(s) ==
    /\ 0 <= s.cy /\ s.cy <= Len(s.row)
    /\ 0 <= s.cx
    /\ IF s.cy < Len(s.row) THEN s.cx <= Len(s.row[s.cy + 1].raw) ELSE s.cx = 0

\* The main loop with the cursor off the document.  On a row and beyond
\* its raw text: editorRefreshScreen's editorScroll has editorRowCxToRx
\* index row.raw beyond its end.  Past the last row: the screen is drawn,
\* and on Enter editorInsertNewline hands e.cy to slices.Insert (cx = 0) or
\* indexes e.row[e.cy].  Each panics, and main's deferred recover calls
\* die().
KeyEnterOffDocument ==
    /\ mode = "edit"
    /\ ~cursorInBounds(e)
    /\ IF e.cy < Len(e.row)
       THEN e' = e /\ key' = key
       ELSE e' = editorScroll(e) /\ key' = chEnter
    /\ mode' = "exit"
    /\ UNCHANGED <<quitTimes, searchGlobals, buf, saved, decoderVars, probe>>

InitCursor ==
    /\ e \in {initEditor(sr, WideCols) : sr \in 0..MaxScreenRows}
    /\ InitRest
    /\ probe = noProbe

\* Once the cursor is off the document the session is followed to its end
\* only: the next screen refresh, or Enter.
NextCursor ==
    \/ cursorInBounds(e) /\ Len(e.row) < MaxCursorRows /\ KeyEnter
    \/ \E c \in CursorChars :
          /\ cursorInBounds(e)
          /\ DocBytes(e.row) + Len(EncodeRune(c)) <= MaxCursorChars
          /\ e.cy = Len(e.row) => Len(e.row) < MaxCursorRows
          /\ KeyInsert(c)
    \/ \E c \in {backspace, delete} : cursorInBounds(e) /\ KeyDelete(c)
    \/ \E c \in {arrowUp, arrowDown, arrowLeft, arrowRight} :
          cursorInBounds(e) /\ KeyMove(c)
    \/ \E c \in {pageUp, pageDown} : cursorInBounds(e) /\ KeyPage(c)
    \/ \E c \in {home, end} : cursorInBounds(e) /\ KeyHomeEnd(c)
    \/ cursorInBounds(e) /\ KeyFind
    \/ \E c \in CursorChars \cup {arrowDown} : FindKey(c)
    \/ FindCancel
    \/ FindConfirm
    \/ KeyEnterOffDocument

SpecCursor == InitCursor /\ [][NextCursor]_vars

\* C22: after every key event (a character typed, Enter, Backspace,
\* Delete, the arrows, Home, End, Page Up, Page Down, a search confirmed or
\* cancelled) the cursor's row is between 0 and the row count and its
\* column between 0 and the raw length of its row, and is 0 one past the
\* last row.
C22_CursorInBounds == mode = "edit" => cursorInBounds(e)

\* The same on a screen of one row or more (a terminal of 3 rows or more).
cursorInBoundsOnScreen ==
    (mode = "edit" /\ e.screenRows >= 1) => cursorInBounds(e)

\* Every row of the editor s is stored as a scan started with the stored
\* flag of the row before it leaves it.
consistent(s) == \A k \in 1..Len(s.row) : rowScanned(s, k)

\* A step that changes the raw text of a row and not the number of rows: a
\* character typed into a row or deleted from it.
charEdit == Len(e'.row) = Len(e.row) /\ rawsOf(e'.row) # rawsOf(e.row)

\* C16: a character typed into row i, or deleted from it, of a document
\* whose rows are all consistent leaves the rows before i as they were,
\* re-highlights each following row with its predecessor's new flag as long
\* as every row from i up to that predecessor changed its flag, leaves the
\* rows after the first unchanged flag as they were, and leaves every row
\* consistent.
C16_Cascade ==
    [][(e.syntax # 0 /\ consistent(e) /\ charEdit) =>
        LET i == CHOOSE k \in 1..Len(e.row) : e'.row[k].raw # e.row[k].raw
            flagChanged(j) == e'.row[j].hasOpenComment # e.row[j].hasOpenComment
        IN  /\ \A k \in 1..(i - 1) : e'.row[k] = e.row[k]
            /\ \A k \in (i + 1)..Len(e.row) :
                  IF \A j \in i..(k - 1) : flagChanged(j)
                  THEN rowScanned(e', k)
                  ELSE e'.row[k] = e.row[k]
            /\ consistent(e')]_vars

\* A '/' typed in front of the first of the rows "*", "*", "*" has opened a
\* block comment that runs through all three rows.
C16_Witness ==
    /\ key = chSlash
    /\ e.cy = 0
    /\ e.cx = 1
    /\ rawsOf(e.row) = << <<chSlash, 42>>, <<42>>, <<42>> >>
    /\ \A k \in 1..3 : e.row[k].hasOpenComment
    /\ consistent(e)

====
